---- MODULE Spec2Model ----
(***************************************************************************)
(* Verification model of the R-Node proof-of-work node:                    *)
(*   - the chain engine  (rblock: Block, Blockchain),                      *)
(*   - the node store    (src/db.rs: BlocksDB over an ordered key/value    *)
(*     database),                                                          *)
(*   - the peer adapter  (src/network/req.rs: the PushBlock handler).      *)
(*                                                                         *)
(* Representation choices                                                  *)
(*   String   a sequence of tokens.  A character is the token             *)
(*            [ch |-> "a"].  A SHA-256 digest is the single token          *)
(*            [sha |-> m] standing for its 64 hex characters, m being      *)
(*            the hashed message: the digest is a function of the          *)
(*            message and is collision-free.  The last 8 hex characters    *)
(*            of a digest are given by DigestTail.                         *)
(*   u32      the difficulty is only ever read nibble by nibble,           *)
(*            (d >> i) & 0xf, so it is kept as its 8 nibbles, d[1] the     *)
(*            least significant (shift 0), d[8] the most (shift 28).       *)
(*   f32      amounts and balances are counted in halves of a coin         *)
(*            (REWARD = 1.5 is 3); a sum or difference is rounded to the  *)
(*            24 significant bits of an f32 (F32), which leaves the small  *)
(*            values exact.                                                *)
(*   bytes    a value of the database is the sequence of tokens bincode    *)
(*            writes: [le |-> n] for a fixed-width number, a length        *)
(*            followed by the characters for a String, a length followed   *)
(*            by the elements for a Vec.                                   *)
(***************************************************************************)
EXTENDS Integers, Sequences, FiniteSets, TLC

(***************************************************************************)
(* Bounds of the model                                                     *)
(***************************************************************************)
\* longest in-memory chain explored (genesis included)
MaxChain == 3
\* largest nonce the mining loop of the model tries
MaxNonce == 3
\* highest block height of the store explored
MaxHeight == 2
\* longest record kept of the blocks rebuild_chainstate has replayed
MaxReplay == MaxHeight + 3
\* the messages signed are 0..MaxMessage
MaxMessage == 3
\* longest transaction list handed to get_merkel_root on its own
MaxLeaves == 4
\* the largest scalar a point is multiplied by: nine times the group order
MaxScalar == 279
\* the largest modulus an inverse is asked for; operands reach twice as far
MaxModulus == 12
\* the widest window a number is recoded with
MaxWidth == 5
\* how many times sign is followed into itself
MaxPasses == 3

(***************************************************************************)
(* Program constants                                                       *)
(***************************************************************************)
BLOCK_SPEED == 1200
TRANSACTION_LIMIT_PER_BLOCK == 5000
\* REWARD: f32 = 1.5, in halves of a coin
REWARD == 3
\* init_db credits 100. to each key, in halves of a coin
INIT_BALANCE == 200
\* the genesis block's timestamp (functions::get_unix_time at construction)
GenesisTime == 1000

(***************************************************************************)
(* Strings and decimal rendering                                           *)
(***************************************************************************)
\* the String spelled by a sequence of one-letter TLA+ strings
Str(cs) == [i \in 1..Len(cs) |-> [ch |-> cs[i]]]

DigitChar == Str(<<"0", "1", "2", "3", "4", "5", "6", "7", "8", "9">>)

HexChars == {"0", "1", "2", "3", "4", "5", "6", "7", "8", "9",
             "a", "b", "c", "d", "e", "f"}

\* value of one hex character (u32::from_str_radix(.., 16) per character)
HexVal(c) ==
    CASE c = "0" -> 0  [] c = "1" -> 1  [] c = "2" -> 2  [] c = "3" -> 3
      [] c = "4" -> 4  [] c = "5" -> 5  [] c = "6" -> 6  [] c = "7" -> 7
      [] c = "8" -> 8  [] c = "9" -> 9  [] c = "a" -> 10 [] c = "b" -> 11
      [] c = "c" -> 12 [] c = "d" -> 13 [] c = "e" -> 14 [] c = "f" -> 15

RECURSIVE Dec(_)
\* "{}" of an unsigned integer: its decimal digits, most significant first
Dec(n) == IF n < 10 THEN <<DigitChar[n + 1]>>
                    ELSE Dec(n \div 10) \o <<DigitChar[(n % 10) + 1]>>

RECURSIVE MulAdd(_, _, _)
\* digits (least significant first) of 16 * value(ds) + carry
MulAdd(ds, i, carry) ==
    IF i > Len(ds)
    THEN IF carry = 0 THEN <<>>
         ELSE <<carry % 10>> \o MulAdd(ds, i, carry \div 10)
    ELSE LET v == ds[i] * 16 + carry
         IN  <<v % 10>> \o MulAdd(ds, i + 1, v \div 10)

RECURSIVE NibblesToDigits(_, _)
\* decimal digits (least significant first) of the u32 whose nibbles k..1 are d
NibblesToDigits(d, k) ==
    IF k > 8 THEN <<>>
    ELSE MulAdd(NibblesToDigits(d, k + 1), 1, d[k])

RECURSIVE DigitsToStr(_, _)
DigitsToStr(ds, i) ==
    IF i = 0 THEN <<>> ELSE <<DigitChar[ds[i] + 1]>> \o DigitsToStr(ds, i - 1)

\* "{}" of a u32 kept as nibbles (0xffffffff renders as 4294967295)
DecU32(d) ==
    LET ds == NibblesToDigits(d, 1)
    IN  IF ds = <<>> THEN Dec(0) ELSE DigitsToStr(ds, Len(ds))

\* "{}" of an f32 amount counted in halves: 3 -> "1.5", 4 -> "2", -1 -> "-0.5"
AmountStr(a) ==
    LET m == IF a < 0 THEN 0 - a ELSE a
        body == Dec(m \div 2) \o (IF m % 2 = 1 THEN Str(<<".", "5">>) ELSE <<>>)
    IN  IF a < 0 THEN Str(<<"-">>) \o body ELSE body

(***************************************************************************)
(* SHA-256 (sha256::hash), abstracted to a collision-free digest whose     *)
(* last 8 hex characters are a fixed function of the message               *)
(***************************************************************************)
IsDigest(tok) == "sha" \in DOMAIN tok

RECURSIVE StrSum(_, _)
\* a checksum of the characters of a message
StrSum(s, i) ==
    IF i > Len(s) THEN 0
    ELSE LET tok == s[i]
             w == IF IsDigest(tok) THEN 7
                  ELSE IF tok.ch \in HexChars THEN HexVal(tok.ch) ELSE 1
         IN  (w + 3 * StrSum(s, i + 1)) % 16

\* hash(message): the digest string of a message
hash(message) == << [sha |-> message] >>

\* the 8 nibbles (tail[1] least significant) spelled by the last 8 hex
\* characters of a digest.  The last nibble is kept in c..f, so that the
\* proof of work fails and has to be mined for as soon as the difficulty
\* leaves 0xffffffff
DigestTail(tok) ==
    LET c == StrSum(tok.sha, 1)
    IN  [k \in 1..8 |-> IF k = 1 THEN 12 + (c % 4) ELSE (c * k + k) % 16]

RECURSIVE StrLen(_, _)
\* String::len: a digest token counts for its 64 characters
StrLen(s, i) ==
    IF i > Len(s) THEN 0
    ELSE (IF IsDigest(s[i]) THEN 64 ELSE 1) + StrLen(s, i + 1)

(***************************************************************************)
(* secp256k1 arithmetic (ecdsa/src/math.rs, secp256k1/point.rs,            *)
(* secp256k1/signature.rs).  The curve keeps its equation y^2 = x^3 + 7    *)
(* and is scaled down to a field of 43 elements: as on secp256k1, the      *)
(* group has a prime order (31) below the field prime, and no point has    *)
(* x = 0, so that (0, 0) stands for the identity.                          *)
(***************************************************************************)
\* Secp256k1::new(): the field prime P, the order N, the generator (X, Y)
Secp256k1 == [p |-> 43, n |-> 31, g |-> [x |-> 2, y |-> 12]]

\* FP, the prime field of the points
FP == 43

\* W, the width used for the precomputed points
W == 4

\* BigInt %: the remainder takes the sign of the dividend
Rem(x, m) ==
    LET a == IF m < 0 THEN 0 - m ELSE m
    IN  IF x >= 0 THEN x % a ELSE 0 - ((0 - x) % a)

\* BigInt /: the quotient is truncated towards zero
Quot(x, m) ==
    LET a == IF m < 0 THEN 0 - m ELSE m
        b == IF x < 0 THEN 0 - x ELSE x
    IN  IF (x >= 0) = (m >= 0) THEN b \div a ELSE 0 - (b \div a)

\* how a call ends when it does not return: a BigInt division by zero
\* panics, and a recursion that never ends exhausts the stack
DivideByZero == [panic |-> "attempt to divide by zero"]

StackOverflow == [panic |-> "stack overflow"]

\* math::modulo: ((x % m) + m) % m
modulo(x, m) == Rem(Rem(x, m) + m, m)

RECURSIVE modular_multiplicative_inverse_panics(_, _)
\* math::modular_multiplicative_inverse divides by zero (n / &b): a
\* negative b that is a multiple of n has been reduced to 0
modular_multiplicative_inverse_panics(n, b0) ==
    IF n = 0 \/ b0 = 0 THEN FALSE
    ELSE LET b == IF b0 < 0 THEN modulo(b0, n) ELSE b0
         IN  IF b = 0 THEN TRUE
             ELSE IF modulo(n, b) = 0 THEN FALSE
             ELSE modular_multiplicative_inverse_panics(b, modulo(n, b))

RECURSIVE modular_multiplicative_inverse(_, _, _, _)
\* math::modular_multiplicative_inverse, t1 and t2 given (None is 0 and 1):
\* 0 when there is no inverse, and the result may be negative (where it
\* does not panic)
modular_multiplicative_inverse(n, b0, t1, t2) ==
    IF n = 0 \/ b0 = 0 THEN 0
    ELSE LET b == IF b0 < 0 THEN modulo(b0, n) ELSE b0
             q == Quot(n, b)
             r == modulo(n, b)
             t3 == t1 - q * t2
         IN  IF r = 0 /\ b # 1 THEN 0
             ELSE IF r = 0 THEN t2
             ELSE modular_multiplicative_inverse(b, r, t2, t3)

RECURSIVE calculate_wnaf(_, _)
calculate_wnaf_Binary(w, n) ==
    LET len == CHOOSE l \in 0..20 : 2 ^ l > n /\ (l = 0 \/ 2 ^ (l - 1) <= n)
    IN  [i \in 1..len |-> (n \div 2 ^ (i - 1)) % 2]

\* math::calculate_wnaf: the digits, least significant first; empty for
\* n < 1
calculate_wnaf(w, n) ==
    IF n < 1 THEN <<>>
    ELSE IF n % 2 = 1
    THEN LET modulus == 2 ^ w
             remainder == modulo(n, modulus)
             digit == IF remainder > 2 ^ (w - 1) - 1
                      THEN remainder - modulus ELSE remainder
         IN  <<digit>> \o calculate_wnaf(w, (n - digit) \div 2)
    ELSE <<0>> \o calculate_wnaf(w, n \div 2)

\* Point::double
double(p) ==
    LET lambda == modulo(3 * p.x * p.x
                           * modular_multiplicative_inverse(FP, 2 * p.y, 0, 1),
                         FP)
        rx == modulo(lambda * lambda - p.x - p.x, FP)
        ry == modulo(lambda * (p.x - rx) - p.y, FP)
    IN  [x |-> rx, y |-> ry]

add_NoDoubling(p, other) ==
    IF p.x = other.x /\ p.y = other.y * (0 - 1) THEN [x |-> 0, y |-> 0]
    ELSE IF p.x = 0 /\ p.y = 0 THEN other
    ELSE IF other.x = 0 /\ other.y = 0 THEN p
    ELSE LET lambda == modulo((other.y - p.y)
                                * modular_multiplicative_inverse(
                                      FP, other.x - p.x, 0, 1),
                              FP)
             rx == modulo(lambda * lambda - other.x - p.x, FP)
             ry == modulo(lambda * (p.x - rx) - p.y, FP)
         IN  [x |-> rx, y |-> ry]

\* Point::add: the four special cases in the order of the code, then the
\* chord
add(p, other) ==
    IF p.x = other.x /\ p.y = other.y * (0 - 1) THEN [x |-> 0, y |-> 0]
    ELSE IF p.x = other.x /\ p.y = other.y THEN double(p)
    ELSE IF p.x = 0 /\ p.y = 0 THEN other
    ELSE IF other.x = 0 /\ other.y = 0 THEN p
    ELSE LET lambda == modulo((other.y - p.y)
                                * modular_multiplicative_inverse(
                                      FP, other.x - p.x, 0, 1),
                              FP)
             rx == modulo(lambda * lambda - other.x - p.x, FP)
             ry == modulo(lambda * (p.x - rx) - p.y, FP)
         IN  [x |-> rx, y |-> ry]

RECURSIVE PrecomputeLoop(_, _, _, _)
\* for j in 1..(1 << (w - 1)): p.push(q + p[j - 1])
PrecomputeLoop(p, q, j, w) ==
    IF j >= 2 ^ (w - 1) THEN p
    ELSE PrecomputeLoop(Append(p, add(q, p[j])), q, j + 1, w)

\* point::precompute_points: q, 3q, 5q, ...
precompute_points(q, w) == PrecomputeLoop(<<q>>, double(q), 1, w)

\* get_curve_precomputed_points
get_curve_precomputed_points == precompute_points(Secp256k1.g, W)

\* one turn of the loop of Point::multiply on the doubled point q2: the
\* precomputed point of the digit is added or subtracted
MultiplyDigit(q2, digit, pre_comp) ==
    IF digit > 0
    THEN add(q2, pre_comp[((digit - 1) \div 2) + 1])
    ELSE IF digit < 0
    THEN LET c == pre_comp[((0 - digit - 1) \div 2) + 1]
         IN  add(q2, [x |-> c.x, y |-> c.y * (0 - 1)])
    ELSE q2

RECURSIVE MultiplyLoop(_, _, _, _)
\* while i > -1: double, then add or subtract the precomputed point of the
\* digit (i counts from 1 here); the point of a turn is a value before the
\* next turn begins
MultiplyLoop(q, wnaf, i, pre_comp) ==
    IF i < 1 THEN q
    ELSE CHOOSE r \in
             { MultiplyLoop(q3, wnaf, i - 1, pre_comp) :
                   q3 \in { MultiplyDigit(q2, wnaf[i], pre_comp) :
                                q2 \in {double(q)} } } : TRUE

\* Point::multiply: the point the table pre_comp belongs to, times n
multiply(p, n, width, pre_comp) ==
    LET wnaf == calculate_wnaf(width, n)
    IN  MultiplyLoop([x |-> 0, y |-> 0], wnaf, Len(wnaf), pre_comp)

RECURSIVE secp256k1_modular_multiplicative_inverse(_, _, _, _, _, _)
\* secp256k1.rs modular_multiplicative_inverse(n, b, t1, t2, s1, s2), the
\* six-argument function curve.rs calls (None is 1, 0, 0, 1): the inverse
\* of n modulo b as [inv |-> t1], a division by zero, or the same
\* arguments passed on for ever
secp256k1_modular_multiplicative_inverse(n, b, t1, t2, s1, s2) ==
    IF n < b
    THEN IF n = 0 THEN DivideByZero
         ELSE LET q == Quot(b, n)
                  r == modulo(b, n)
              IN  IF n = 1 THEN [inv |-> t1]
                  ELSE IF r = b /\ q = 0 THEN StackOverflow
                  ELSE secp256k1_modular_multiplicative_inverse(
                           n, r, t1, t2, s1 - t1 * q, s2 - t2 * q)
    ELSE IF b = 0 THEN DivideByZero
         ELSE LET q == Quot(n, b)
                  r == modulo(n, b)
              IN  IF r = 1 THEN [inv |-> t1 - s1 * q]
                  ELSE IF r = n /\ q = 0 THEN StackOverflow
                  ELSE secp256k1_modular_multiplicative_inverse(
                           r, b, t1 - s1 * q, t2 - s2 * q, s1, s2)

\* curve.rs Point::double, or the panic of the inverse
Curve_double(p) ==
    LET i == secp256k1_modular_multiplicative_inverse(2 * p.y, FP, 1, 0, 0, 1)
    IN  IF i \in {DivideByZero, StackOverflow} THEN i
        ELSE LET lambda == modulo(3 * p.x * p.x * i.inv, FP)
                 rx == modulo(lambda * lambda - p.x - p.x, FP)
                 ry == modulo(lambda * (p.x - rx) - p.y, FP)
             IN  [x |-> rx, y |-> ry]

\* curve.rs Point::add, or the panic of the inverse
Curve_add(p, other) ==
    IF p.x = other.x /\ p.y = other.y * (0 - 1) THEN [x |-> 0, y |-> 0]
    ELSE IF p.x = other.x /\ p.y = other.y THEN Curve_double(p)
    ELSE IF p.x = 0 /\ p.y = 0 THEN other
    ELSE IF other.x = 0 /\ other.y = 0 THEN p
    ELSE LET i == secp256k1_modular_multiplicative_inverse(
                      other.x - p.x, FP, 1, 0, 0, 1)
         IN  IF i \in {DivideByZero, StackOverflow} THEN i
             ELSE LET lambda == modulo((other.y - p.y) * i.inv, FP)
                      rx == modulo(lambda * lambda - other.x - p.x, FP)
                      ry == modulo(lambda * (p.x - rx) - p.y, FP)
                  IN  [x |-> rx, y |-> ry]

RECURSIVE Curve_multiply_loop(_, _, _)
\* while n > 0: add self to res on a set bit, double self, shift n
Curve_multiply_loop(res, self, n) ==
    IF n <= 0 THEN res
    ELSE LET res2 == IF n % 2 # 0 THEN Curve_add(res, self) ELSE res
             self2 == Curve_double(self)
         IN  IF res2 \in {DivideByZero, StackOverflow} THEN res2
             ELSE IF self2 \in {DivideByZero, StackOverflow} THEN self2
             ELSE Curve_multiply_loop(res2, self2, n \div 2)

\* curve.rs Point::multiply: binary double-and-add
Curve_multiply(self, n) == Curve_multiply_loop([x |-> 0, y |-> 0], self, n)

\* the group law of the curve, for reference: the inverse in the field, the
\* sum of two points with the opposite point taken modulo FP, and p taken
\* k times
FieldInverse(a) == CHOOSE i \in 0..(FP - 1) : (modulo(a, FP) * i) % FP = 1

GroupAdd(p, q) ==
    IF p = [x |-> 0, y |-> 0] THEN q
    ELSE IF q = [x |-> 0, y |-> 0] THEN p
    ELSE IF p.x = q.x /\ (p.y + q.y) % FP = 0 THEN [x |-> 0, y |-> 0]
    ELSE LET lambda == IF p = q
                       THEN (3 * p.x * p.x * FieldInverse(2 * p.y)) % FP
                       ELSE modulo((q.y - p.y) * FieldInverse(q.x - p.x), FP)
             rx == modulo(lambda * lambda - p.x - q.x, FP)
         IN  [x |-> rx, y |-> modulo(lambda * (p.x - rx) - p.y, FP)]

RECURSIVE ScalarMultiple(_, _)
ScalarMultiple(p, k) ==
    IF k = 0 THEN [x |-> 0, y |-> 0]
    ELSE IF k % 2 = 0
    THEN LET half == ScalarMultiple(p, k \div 2) IN GroupAdd(half, half)
    ELSE GroupAdd(ScalarMultiple(p, k - 1), p)

\* the messages signed in the model, and the integer
\* bigint(hash(message + p)) read from the digest of each: 0, values below
\* the order and values above it
Messages == 0..MaxMessage

bigint_hash(message) == (12 * message) % (2 * Secp256k1.n + 1)

\* Signature::get_empty() as a pair of integers
get_empty == [r |-> 0, s |-> 0]

\* sign does not return: it calls itself with the same nonce
Diverges == [diverges |-> TRUE]

\* secp256k1::sign(message, d, Some(k))
ecdsa_sign(message, d, k) ==
    LET p == multiply(Secp256k1.g, k, W, get_curve_precomputed_points)
        r == modulo(p.x, Secp256k1.p)
        m == bigint_hash(message)
        sigma == modulo((d * r + m)
                          * modular_multiplicative_inverse(Secp256k1.n, k, 0, 1),
                        Secp256k1.n)
    IN  IF r = 0 THEN Diverges
        ELSE IF sigma = 0 THEN Diverges
        ELSE [r |-> r, s |-> sigma]

sign_again_Resampled(k) == modulo(k + 1, Secp256k1.p)

\* the nonce of the call sign makes of itself, sign(message, d, Some(k)),
\* when r or sigma is 0
sign_again(k) == k

\* secp256k1::verify_signature
ecdsa_verify_signature(signature, message, public_key) ==
    LET z == bigint_hash(message)
        w == modulo(modular_multiplicative_inverse(Secp256k1.n, signature.s,
                                                   0, 1),
                    Secp256k1.n)
        u1 == modulo(z * w, Secp256k1.n)
        u2 == modulo(signature.r * w, Secp256k1.n)
        p1 == multiply(Secp256k1.g, u1, W, get_curve_precomputed_points)
        public_key_precomp == precompute_points(public_key, W)
        p2 == multiply(public_key, u2, W, public_key_precomp)
        res == add(p1, p2)
    IN  res.x = signature.r

(***************************************************************************)
(* Keys, signatures and transactions.  In the chain engine, the store and  *)
(* the peer adapter a signature is kept symbolically: r names the key and  *)
(* s the digest it was made from, which leaves out the collisions of a     *)
(* scaled-down curve.                                                      *)
(***************************************************************************)
\* Point::identity(), the sender of a miner reward
Identity == [x |-> 0, y |-> 0]

\* the public key d*G of the private key d (ideal: one point per key)
PubKey(d) == [x |-> d, y |-> d + 1]

\* Display of a Point: "x{}_y{}"
PointStr(p) == Str(<<"x">>) \o Dec(p.x) \o Str(<<"_", "y">>) \o Dec(p.y)

\* Signature::get_empty(): r = 0, s = 0
EmptySignature == [r |-> 0, s |-> Dec(0)]

\* sign(message, d): an ideal signature, which names the key (r) and the
\* digest of the message (s) it was made from
sign(message, d) == [r |-> d, s |-> hash(message)]

\* Display of a Signature: "r{}_s{}"
SignatureStr(sig) == Str(<<"r">>) \o Dec(sig.r) \o Str(<<"_", "s">>) \o sig.s

\* verify_signature.  With s = 0 the inverse w is 0, so u1 = u2 = 0, both
\* products are the identity and the test res.x == r compares 0 with r.
\* Otherwise it holds exactly for a signature made by the owner of
\* public_key over this message
verify_signature(sig, message, public_key) ==
    IF sig.s = Dec(0)
    THEN sig.r = 0
    ELSE /\ sig.r # 0
         /\ PubKey(sig.r) = public_key
         /\ sig.s = hash(message)

\* Transaction::get_message
TxMessage(t) == PointStr(t.sender) \o PointStr(t.recipient) \o AmountStr(t.amount)

\* Transaction::new: signs at construction
TransactionNew(sender, recipient, amount, private_key) ==
    LET m == PointStr(sender) \o PointStr(recipient) \o AmountStr(amount)
    IN  [sender |-> sender, recipient |-> recipient, amount |-> amount,
         signature |-> sign(m, private_key)]

reward_transaction_FromMiner(recipient) ==
    [sender |-> recipient, recipient |-> recipient, amount |-> REWARD,
     signature |-> EmptySignature]

\* Transaction::reward_transaction
reward_transaction(recipient) ==
    [sender |-> Identity, recipient |-> recipient, amount |-> REWARD,
     signature |-> EmptySignature]

\* Transaction::verify
TxVerify(t) == verify_signature(t.signature, TxMessage(t), t.sender)

\* Transaction::get_hash
TxHash(t) ==
    hash(PointStr(t.sender) \o PointStr(t.recipient) \o AmountStr(t.amount)
         \o SignatureStr(t.signature))

(***************************************************************************)
(* Merkle root (functions::get_merkel_root)                                *)
(***************************************************************************)
RECURSIVE MerkelLoop(_)
\* while nodes.len() > 1: pop two from the front, push hash(f + s) to the back
MerkelLoop(nodes) ==
    IF Len(nodes) <= 1 THEN nodes
    ELSE LET f == nodes[1]
             s == nodes[2]
         IN  MerkelLoop(SubSeq(nodes, 3, Len(nodes)) \o <<hash(f \o s)>>)

get_merkel_root_FirstLeaf(transactions) ==
    IF Len(transactions) = 0 THEN <<>> ELSE TxHash(transactions[1])

get_merkel_root(transactions) ==
    IF Len(transactions) = 0 THEN <<>>
    ELSE LET leaves == [i \in 1..Len(transactions) |-> TxHash(transactions[i])]
             nodes == IF Len(leaves) % 2 = 1
                      THEN Append(leaves, leaves[Len(leaves)])
                      ELSE leaves
         IN  MerkelLoop(nodes)[1]

(***************************************************************************)
(* Block (rblock/src/block.rs)                                             *)
(***************************************************************************)
\* difficulty 0xffffffff
MaxDifficulty == [k \in 1..8 |-> 15]

\* Block::get_message: the six fields concatenated without separators
get_message(b) ==
    Dec(b.height) \o Dec(b.timestamp) \o b.prev_hash \o Dec(b.nonce)
        \o DecU32(b.difficulty) \o b.merkel_root

\* Block::set_hash
set_hash(b) == [b EXCEPT !.hash = hash(get_message(b))]

\* Block::new_genesis, now being functions::get_unix_time()
new_genesis(now) ==
    set_hash([height |-> 0, hash |-> <<>>, timestamp |-> now, nonce |-> 0,
              difficulty |-> MaxDifficulty, prev_hash |-> <<>>,
              merkel_root |-> <<>>, transactions |-> <<>>])

\* Block::new, now being functions::get_unix_time()
BlockNew(prev_block, transactions, now) ==
    set_hash([height |-> prev_block.height + 1, hash |-> <<>>,
              timestamp |-> now, nonce |-> 0,
              difficulty |-> prev_block.difficulty,
              prev_hash |-> prev_block.hash,
              merkel_root |-> get_merkel_root(transactions),
              transactions |-> transactions])

reward_miner_KeepRoot(b, miner_address) ==
    IF \E i \in 1..Len(b.transactions) : b.transactions[i].sender = Identity
    THEN b
    ELSE set_hash([b EXCEPT !.transactions =
                               Append(@, reward_transaction(miner_address))])

\* Block::reward_miner: nothing when the block holds a reward already;
\* otherwise the reward is pushed, the root recomputed and the hash set
reward_miner(b, miner_address) ==
    IF \E i \in 1..Len(b.transactions) : b.transactions[i].sender = Identity
    THEN b
    ELSE LET transactions == Append(b.transactions,
                                    reward_transaction(miner_address))
         IN  set_hash([b EXCEPT !.transactions = transactions,
                                !.merkel_root = get_merkel_root(transactions)])

\* Block::set_difficulty
set_difficulty(b, diff) == set_hash([b EXCEPT !.difficulty = diff])

\* Block::increment_and_hash (the nonces of the model stay far below
\* u32::MAX, where the code returns without a change)
increment_and_hash(b) == set_hash([b EXCEPT !.nonce = @ + 1])

\* Block::verify_difficulty panics: hash.len() - 8 underflows or slices out
\* of range on a hash shorter than 8 characters, and unwrap() fails on a
\* tail that is not hexadecimal
verify_difficulty_panics(h) ==
    \/ StrLen(h, 1) < 8
    \/ /\ ~IsDigest(h[Len(h)])
       /\ \E j \in (Len(h) - 7)..Len(h) : h[j].ch \notin HexChars

\* the u32 parsed from the last 8 characters of the hash, as nibbles
HashTail(h) ==
    IF IsDigest(h[Len(h)]) THEN DigestTail(h[Len(h)])
    ELSE [k \in 1..8 |-> HexVal(h[Len(h) - k + 1].ch)]

RECURSIVE VerifyDifficultyLoop(_, _, _)
\* for i in (0..=28).step_by(4): false at the first nibble of the hash
\* that exceeds the nibble of the difficulty
VerifyDifficultyLoop(hash_u32, difficulty, i) ==
    IF i > 28 THEN TRUE
    ELSE LET difficulty_bits == difficulty[(i \div 4) + 1]
             hash_bits == hash_u32[(i \div 4) + 1]
         IN  IF hash_bits > difficulty_bits THEN FALSE
             ELSE VerifyDifficultyLoop(hash_u32, difficulty, i + 4)

verify_difficulty_Strict(h, difficulty) ==
    \A k \in 1..8 : HashTail(h)[k] < difficulty[k]

\* Block::verify_difficulty, where it does not panic
verify_difficulty(h, difficulty) ==
    VerifyDifficultyLoop(HashTail(h), difficulty, 0)

RECURSIVE ConfirmLoop(_, _, _)
\* Block::confirm_transactions, for transaction in &self.transactions,
\* over the positions lo..hi: false at the first transaction that is not
\* sent by the identity point and does not verify.  The range is walked
\* from first to last, in halves
ConfirmLoop(transactions, lo, hi) ==
    IF lo > hi THEN TRUE
    ELSE IF lo = hi
    THEN ~(transactions[lo].sender # Identity /\ ~TxVerify(transactions[lo]))
    ELSE LET mid == (lo + hi) \div 2
         IN  IF ConfirmLoop(transactions, lo, mid)
             THEN ConfirmLoop(transactions, mid + 1, hi)
             ELSE FALSE

confirm_transactions_NoLimit(b) ==
    ConfirmLoop(b.transactions, 1, Len(b.transactions))

\* Block::confirm_transactions (Blockchain::add_block calls it
\* verify_transactions): too many transactions, then the loop
confirm_transactions(b) ==
    IF Len(b.transactions) > TRANSACTION_LIMIT_PER_BLOCK THEN FALSE
    ELSE ConfirmLoop(b.transactions, 1, Len(b.transactions))

\* Block::confirm_hash (Blockchain::add_block calls it verify_hash)
confirm_hash(b) == b.hash = hash(get_message(b))

\* Block::confirm_difficulty
confirm_difficulty(b) == verify_difficulty(b.hash, b.difficulty)

(***************************************************************************)
(* Difficulty adjustment                                                   *)
(***************************************************************************)
\* a - b on u64 overflows (panics with overflow checks, wraps without)
U64SubOverflows(a, b) == a < b

\* wrapping a - b >= k: a wrapped difference is 2^64 - (b - a), which is
\* above every k of the program for the timestamps of the model
WrappingSubGe(a, b, k) == IF a >= b THEN a - b >= k ELSE TRUE

\* wrapping a - b > k
WrappingSubGt(a, b, k) == IF a >= b THEN a - b > k ELSE TRUE

RECURSIVE LoosenLoop(_, _)
\* for i in (0..=28).rev().step_by(4): add one to the first nibble below 0xf
LoosenLoop(latest_diff, i) ==
    IF i < 0 THEN latest_diff
    ELSE LET bits == latest_diff[(i \div 4) + 1]
         IN  IF bits = 15 THEN LoosenLoop(latest_diff, i - 4)
             ELSE [latest_diff EXCEPT ![(i \div 4) + 1] = bits + 1]

RECURSIVE TightenLoop(_, _)
\* for i in (0..=28).step_by(4): subtract one from the first nibble above 0
TightenLoop(latest_diff, i) ==
    IF i > 28 THEN latest_diff
    ELSE LET bits == latest_diff[(i \div 4) + 1]
         IN  IF bits = 0 THEN TightenLoop(latest_diff, i + 4)
             ELSE [latest_diff EXCEPT ![(i \div 4) + 1] = bits - 1]

\* Block::get_supposed_difficulty: loosens when time_diff > BLOCK_SPEED
get_supposed_difficulty(base_block, comp_block) ==
    IF WrappingSubGt(comp_block.timestamp, base_block.timestamp, BLOCK_SPEED)
    THEN LoosenLoop(base_block.difficulty, 28)
    ELSE TightenLoop(base_block.difficulty, 0)

(***************************************************************************)
(* Chain engine (rblock/src/blockchain.rs)                                 *)
(***************************************************************************)
\* Blockchain::new
BlockchainNew(now) == <<new_genesis(now)>>

\* a latest-block lookup that returns the first block of the chain
get_latest_block_First(ch) == ch[1]

\* Blockchain::get_latest_block
get_latest_block(ch) == ch[Len(ch)]

\* Blockchain::get_new_block_difficulty: loosens when diff >= BLOCK_SPEED
get_new_block_difficulty(ch, comp_block) ==
    LET latest_diff == get_latest_block(ch).difficulty
        block == get_latest_block(ch)
    IN  IF WrappingSubGe(comp_block.timestamp, block.timestamp, BLOCK_SPEED)
        THEN LoosenLoop(latest_diff, 28)
        ELSE TightenLoop(latest_diff, 0)

\* a linkage test that accepts every block
IsLinked_Any(latest, new_block) == TRUE

\* add_block's linkage test: latest.get_hash() == new_block.get_prev_hash()
IsLinked(latest, new_block) == latest.hash = new_block.prev_hash

\* a push that puts the block in front of the chain
Push_Front(ch, new_block) == <<new_block>> \o ch

\* add_block's self.chain.push(new_block)
Push(ch, new_block) == Append(ch, new_block)

\* Blockchain::add_block: the chain after the call and how the call ended.
\* checks tells whether the build has overflow checks (debug) or wraps
\* (release): the subtraction of the timestamps comes first.
add_block(ch, new_block, checks) ==
    LET latest == get_latest_block(ch)
    IN  IF checks /\ U64SubOverflows(new_block.timestamp, latest.timestamp)
        THEN [chain |-> ch, outcome |-> "panic"]
        ELSE
        LET supposed_difficulty == get_new_block_difficulty(ch, new_block)
        IN  IF ~confirm_transactions(new_block)
            THEN [chain |-> ch, outcome |-> "bad_transactions"]
            ELSE IF ~IsLinked(latest, new_block)
            THEN [chain |-> ch, outcome |-> "not_linked"]
            ELSE IF ~confirm_hash(new_block)
            THEN [chain |-> ch, outcome |-> "bad_hash"]
            ELSE IF new_block.difficulty # supposed_difficulty
            THEN [chain |-> ch, outcome |-> "bad_difficulty"]
            ELSE IF verify_difficulty_panics(new_block.hash)
            THEN [chain |-> ch, outcome |-> "panic"]
            ELSE IF ~verify_difficulty(new_block.hash, supposed_difficulty)
            THEN [chain |-> ch, outcome |-> "bad_pow"]
            ELSE [chain |-> Push(ch, new_block), outcome |-> "pushed"]

(***************************************************************************)
(* Candidate blocks: what a caller may hand to add_block                   *)
(***************************************************************************)
\* private keys of the two users; their public keys
P1 == 1
P2 == 2
K1 == PubKey(P1)
K2 == PubKey(P2)

\* the signed transfer T of the scenarios, K1 to K2
T == TransactionNew(K1, K2, 1, P1)

RECURSIVE Mine(_)
\* the caller's mining loop (src/main.rs): increment_and_hash until
\* verify_difficulty holds, given up at MaxNonce
Mine(b) ==
    IF verify_difficulty(b.hash, b.difficulty) \/ b.nonce >= MaxNonce
    THEN b
    ELSE Mine(increment_and_hash(b))

\* timestamps a candidate may carry, relative to the tip's: earlier than
\* the tip, equal, exactly BLOCK_SPEED later, and later still
Deltas == {0 - 1, 0, BLOCK_SPEED, BLOCK_SPEED + 1}

Kinds == {"mined", "empty", "reward", "height", "unlinked", "unmined",
          "bad_hash", "short_hash", "base_difficulty", "supposed",
          "forged", "unsigned"}

\* a block built as src/main.rs builds one on the tip of ch: Block::new,
\* set_difficulty to the expected difficulty, then mined
MinedOn(ch, transactions, now) ==
    LET b == BlockNew(get_latest_block(ch), transactions, now)
    IN  Mine(set_difficulty(b, get_new_block_difficulty(ch, b)))

\* the candidate of a kind: a mined block, or a block as a peer could
\* serialize it, with one field set freely
Candidate(ch, kind, now) ==
    LET tip == get_latest_block(ch)
        m == MinedOn(ch, <<T>>, now)
    IN  CASE kind = "mined" -> m
          [] kind = "empty" -> MinedOn(ch, <<>>, now)
          [] kind = "reward" -> MinedOn(ch, <<T, reward_transaction(K1)>>, now)
          [] kind = "height" ->
                Mine(set_hash([m EXCEPT !.height = tip.height + 3, !.nonce = 0]))
          [] kind = "unlinked" ->
                Mine(set_hash([m EXCEPT !.prev_hash = hash(Str(<<"x">>)),
                                        !.nonce = 0]))
          [] kind = "unmined" -> set_hash([m EXCEPT !.nonce = 0])
          [] kind = "bad_hash" -> [m EXCEPT !.hash = increment_and_hash(m).hash]
          [] kind = "short_hash" -> [m EXCEPT !.hash = Str(<<"a", "b">>)]
          [] kind = "base_difficulty" ->
                Mine(BlockNew(tip, <<T>>, now))
          [] kind = "supposed" ->
                LET b == BlockNew(tip, <<T>>, now)
                IN  Mine(set_difficulty(b, get_supposed_difficulty(tip, b)))
          [] kind = "forged" ->
                MinedOn(ch, <<[T EXCEPT !.amount = 2]>>, now)
          [] kind = "unsigned" ->
                MinedOn(ch, <<[T EXCEPT !.signature = EmptySignature]>>, now)

(***************************************************************************)
(* State                                                                   *)
(***************************************************************************)
VARIABLES
    chain,            \* Blockchain.chain
    overflow_checks,  \* the build: TRUE with overflow checks (debug)
    cand,             \* the argument of the last add_block call
    outcome,          \* how the last add_block call ended
    old_chain,        \* Blockchain.chain when the last call began
    s4,               \* scenario S4: the two blocks, the order of the
                      \* calls and how each call ended
    db_blocks,        \* store: height key -> serialized Block
    db_latest,        \* store: the bytes under "latest", or NoBytes
    db_bal,           \* store: "userPK_" + key -> balance
    st_pc,            \* position of the running store operation
    st_op,            \* the store operation that runs or ran last
    st_block,         \* its Block argument
    st_i,             \* update_chainstate: index of the transaction at hand
    st_ret,           \* what the last store operation returned
    st_pre,           \* the store when the last operation began
    st_applied,       \* rebuild_chainstate: heights of the blocks it has
                      \* handed to update_chainstate, in order
    hp,               \* PushBlock handlers: per connection its position,
                      \* the block of the request, the status replied
                      \* and the statement that decided it
    db_lock,          \* GLOBAL_DB mutex: the connection holding it, or 0
    ec,               \* a sign / verify_signature call: its arguments,
                      \* the signature and the verdict
    vd,               \* a verify_difficulty call: arguments and verdict
    ct,               \* a confirm_transactions call: list and verdict
    blk,              \* a Block a caller builds and mutates
    mk,               \* a get_merkel_root call: the list, the root, and
                      \* the root of the list with two positions swapped
    call              \* a call of a function of the math, curve, block
                      \* or merkle modules: its arguments and its result

chainVars == <<chain, overflow_checks, cand, outcome, old_chain>>

storeVars == <<db_blocks, db_latest, db_bal, st_pc, st_op, st_block, st_i,
               st_ret, st_pre, st_applied>>

pushVars == <<hp, db_lock>>

pureVars == <<ec, vd, ct, blk, mk, call>>

vars == <<chainVars, s4, storeVars, pushVars, pureVars>>

\* no call yet
NoBlock == [none |-> TRUE]

\* no value under a key of the database
NoBytes == <<>>

\* the genesis block of the runs
Genesis == new_genesis(GenesisTime)

\* no scenario running
NoScenario == [none |-> TRUE]

(***************************************************************************)
(* The chain engine under arbitrary calls                                  *)
(***************************************************************************)
InitChain ==
    /\ chain = BlockchainNew(GenesisTime)
    /\ overflow_checks \in BOOLEAN
    /\ cand = NoBlock
    /\ outcome = "none"
    /\ old_chain = chain

\* BlocksDB::start_db on a fresh home directory: an empty database
InitStore ==
    /\ db_blocks = <<>>
    /\ db_latest = NoBytes
    /\ db_bal = <<>>
    /\ st_pc = "idle"
    /\ st_op = "none"
    /\ st_block = NoBlock
    /\ st_i = 0
    /\ st_ret = "none"
    /\ st_pre = [blocks |-> <<>>, latest |-> NoBytes, bal |-> <<>>]
    /\ st_applied = <<>>

\* the connections a node serves at a time, one handler thread each
Conns == {1, 2}

\* a handler that has not read its request yet
IdleHandler ==
    [pc |-> "idle", req_type |-> "none", block |-> NoBlock,
     res_type |-> "none", status |-> "none", at |-> "none",
     sent |-> 0, locked |-> FALSE]

\* no request under way, the mutex free
InitPush ==
    /\ hp = [c \in Conns |-> IdleHandler]
    /\ db_lock = 0

\* no call of a function on its own under way
NoCall == [pc |-> "none"]

InitPure ==
    /\ ec = NoCall
    /\ vd = NoCall
    /\ ct = NoCall
    /\ blk = NoBlock
    /\ mk = NoCall
    /\ call = NoCall

Init ==
    /\ InitChain
    /\ s4 = NoScenario
    /\ InitStore
    /\ InitPush
    /\ InitPure

\* one call of Blockchain::add_block by the idle caller
AddBlock ==
    /\ outcome = "none"
    /\ Len(chain) < MaxChain
    /\ \E kind \in Kinds, d \in Deltas :
          LET new_block == Candidate(chain, kind,
                                     get_latest_block(chain).timestamp + d)
              r == add_block(chain, new_block, overflow_checks)
          IN  /\ chain' = r.chain
              /\ outcome' = r.outcome
              /\ cand' = new_block
              /\ old_chain' = chain
    /\ UNCHANGED <<overflow_checks, s4, storeVars, pushVars, pureVars>>

\* the call has returned and the caller is idle again; a panic ends the
\* process instead
Return ==
    /\ outcome \notin {"none", "panic"}
    /\ cand' = NoBlock
    /\ outcome' = "none"
    /\ old_chain' = chain
    /\ UNCHANGED <<chain, overflow_checks, s4, storeVars, pushVars, pureVars>>

Next == AddBlock \/ Return

Spec == Init /\ [][Next]_vars

(***************************************************************************)
(* Scenario S4: two successive mined blocks, added in order or out of      *)
(* order                                                                   *)
(***************************************************************************)
\* clock readings of a miner, relative to the block mined on
MinerDeltas == {d \in Deltas : d >= 0}

MinerLoads == {<<T>>, <<T, reward_transaction(K1)>>}

InitS4 ==
    /\ InitChain
    /\ InitStore
    /\ InitPush
    /\ InitPure
    /\ \E d1 \in MinerDeltas, d2 \in MinerDeltas,
          l1 \in MinerLoads, l2 \in MinerLoads,
          order \in {"in_order", "out_of_order"} :
          LET b1 == MinedOn(chain, l1, GenesisTime + d1)
              b2 == MinedOn(Append(chain, b1), l2, b1.timestamp + d2)
          IN  /\ confirm_difficulty(b1)
              /\ confirm_difficulty(b2)
              /\ s4 = [b1 |-> b1, b2 |-> b2, order |-> order,
                       calls |-> IF order = "in_order" THEN <<b1, b2>>
                                                       ELSE <<b2, b1>>,
                       out |-> <<>>]

\* the next add_block call of the scenario
S4AddBlock ==
    /\ Len(s4.out) < Len(s4.calls)
    /\ \A i \in 1..Len(s4.out) : s4.out[i] # "panic"
    /\ LET new_block == s4.calls[Len(s4.out) + 1]
           r == add_block(chain, new_block, overflow_checks)
       IN  /\ chain' = r.chain
           /\ s4' = [s4 EXCEPT !.out = Append(@, r.outcome)]
    /\ UNCHANGED <<overflow_checks, cand, outcome, old_chain, storeVars, pushVars, pureVars>>

NextS4 == S4AddBlock

SpecS4 == InitS4 /\ [][NextS4]_vars

(***************************************************************************)
(* bincode: how the store writes a Block under a key and reads it back     *)
(***************************************************************************)
HexDigitChar == Str(<<"0", "1", "2", "3", "4", "5", "6", "7", "8", "9",
                      "a", "b", "c", "d", "e", "f">>)

RECURSIVE Hex(_)
\* format!("{:x}", n) of a non-negative BigInt
Hex(n) == IF n < 16 THEN <<HexDigitChar[n + 1]>>
                    ELSE Hex(n \div 16) \o <<HexDigitChar[(n % 16) + 1]>>

RECURSIVE ParseHex(_, _, _)
\* math::bigint: BigInt::parse_bytes(.., 16), from character i on
ParseHex(s, i, acc) ==
    IF i > Len(s) THEN acc
    ELSE ParseHex(s, i + 1, acc * 16 + HexVal(s[i].ch))

\* a fixed-width number (u64, u32, f32) as written by bincode
PutNum(n) == << [le |-> n] >>

\* the u32 difficulty, kept as its nibbles
PutU32(d) == << [le32 |-> d] >>

\* a String or the hex digits of a BigInt: its length, then its characters
PutString(s) == PutNum(Len(s)) \o s

\* impl Serialize for Point: x and y as hex strings
PutPoint(p) == PutString(Hex(p.x)) \o PutString(Hex(p.y))

\* impl Serialize for Signature: r and s as hex strings (the digits of the
\* ideal s are the tokens it is made of)
PutSignature(sig) == PutString(Hex(sig.r)) \o PutString(sig.s)

\* derive(Serialize) for Transaction: the fields in declaration order
PutTransaction(t) ==
    PutPoint(t.sender) \o PutPoint(t.recipient) \o PutNum(t.amount)
        \o PutSignature(t.signature)

RECURSIVE PutTransactions(_, _)
PutTransactions(transactions, i) ==
    IF i > Len(transactions) THEN <<>>
    ELSE PutTransaction(transactions[i]) \o PutTransactions(transactions, i + 1)

\* bincode::serialize(block): derive(Serialize) for Block, the fields in
\* declaration order, a Vec as its length and its elements
serialize(b) ==
    PutNum(b.height) \o PutString(b.hash) \o PutNum(b.timestamp)
        \o PutString(b.prev_hash) \o PutNum(b.nonce) \o PutU32(b.difficulty)
        \o PutString(b.merkel_root)
        \o PutNum(Len(b.transactions)) \o PutTransactions(b.transactions, 1)

\* the readers return the value read and the position behind it
GetNum(bytes, pos) == [val |-> bytes[pos].le, next |-> pos + 1]

GetU32(bytes, pos) == [val |-> bytes[pos].le32, next |-> pos + 1]

GetString(bytes, pos) ==
    LET n == bytes[pos].le
    IN  [val |-> SubSeq(bytes, pos + 1, pos + n), next |-> pos + n + 1]

\* impl Deserialize for Point: bigint(&fields.x), bigint(&fields.y)
GetPoint(bytes, pos) ==
    LET x == GetString(bytes, pos)
        y == GetString(bytes, x.next)
    IN  [val |-> [x |-> ParseHex(x.val, 1, 0), y |-> ParseHex(y.val, 1, 0)],
         next |-> y.next]

\* impl Deserialize for Signature
GetSignature(bytes, pos) ==
    LET r == GetString(bytes, pos)
        s == GetString(bytes, r.next)
    IN  [val |-> [r |-> ParseHex(r.val, 1, 0), s |-> s.val], next |-> s.next]

GetTransaction(bytes, pos) ==
    LET sender == GetPoint(bytes, pos)
        recipient == GetPoint(bytes, sender.next)
        amount == GetNum(bytes, recipient.next)
        signature == GetSignature(bytes, amount.next)
    IN  [val |-> [sender |-> sender.val, recipient |-> recipient.val,
                  amount |-> amount.val, signature |-> signature.val],
         next |-> signature.next]

RECURSIVE GetTransactions(_, _, _)
GetTransactions(bytes, pos, n) ==
    IF n = 0 THEN <<>>
    ELSE LET t == GetTransaction(bytes, pos)
         IN  <<t.val>> \o GetTransactions(bytes, t.next, n - 1)

\* bincode::deserialize::<Block>(&bytes)
deserialize(bytes) ==
    LET height == GetNum(bytes, 1)
        h == GetString(bytes, height.next)
        timestamp == GetNum(bytes, h.next)
        prev_hash == GetString(bytes, timestamp.next)
        nonce == GetNum(bytes, prev_hash.next)
        difficulty == GetU32(bytes, nonce.next)
        merkel_root == GetString(bytes, difficulty.next)
        count == GetNum(bytes, merkel_root.next)
    IN  [height |-> height.val, hash |-> h.val, timestamp |-> timestamp.val,
         nonce |-> nonce.val, difficulty |-> difficulty.val,
         prev_hash |-> prev_hash.val, merkel_root |-> merkel_root.val,
         transactions |-> GetTransactions(bytes, count.next, count.val)]

(***************************************************************************)
(* Node store (src/db.rs): BlocksDB                                        *)
(***************************************************************************)
\* the store as one value
Store == [blocks |-> db_blocks, latest |-> db_latest, bal |-> db_bal]

\* BlocksDB::get_block: found or NotFound
HasBlock(blocks, height) == height \in DOMAIN blocks

\* BlocksDB::get_block, found: the bytes under the height key, decoded
get_block(blocks, height) == deserialize(blocks[height])

\* BlocksDB::get_latest_block, found: the bytes under "latest", decoded
db_get_latest_block(latest) == deserialize(latest)

\* BlocksDB::update_latest_block: the encoded block goes under "latest"
update_latest_block(block) == serialize(block)

\* a put that files the block one key too high
put_block_NextKey(blocks, block) ==
    ((block.height + 1) :> serialize(block)) @@ blocks

\* BlocksDB::put_block, height key free: the encoded block goes under
\* the key of its height
put_block(blocks, block) == (block.height :> serialize(block)) @@ blocks

\* BlocksDB::get_balance: found or NotFound
HasBalance(bal, public_key) == public_key \in DOMAIN bal

\* f32 keeps 24 significant bits
F32Digits == 24

RECURSIVE F32Ulp(_, _)
\* the spacing of the f32 values around a magnitude a (in halves of a coin),
\* as a multiple of the spacing ulp of the values below 2^24 halves
F32Ulp(a, ulp) ==
    IF a < (2 ^ F32Digits) * ulp THEN ulp ELSE F32Ulp(a, 2 * ulp)

\* the result of an f32 addition or subtraction whose exact value is x
\* halves: x rounded to 24 significant bits, a tie going to the even one
F32(x) ==
    LET a == IF x < 0 THEN 0 - x ELSE x
        ulp == F32Ulp(a, 1)
        q == a \div ulp
        r == a % ulp
        up == 2 * r > ulp \/ (2 * r = ulp /\ q % 2 = 1)
        m == (IF up THEN q + 1 ELSE q) * ulp
    IN  IF x < 0 THEN 0 - m ELSE m

\* BlocksDB::update_balance: put under the user key
update_balance(bal, public_key, value) ==
    (public_key :> value) @@ bal

RECURSIVE verify_transactions(_, _, _)
\* BlocksDB::verify_transactions: every sender but the reward sender is
\* known and holds at least the amount of the transaction, read from the
\* stored balances; the first failure is returned
verify_transactions(bal, transactions, i) ==
    IF i > Len(transactions) THEN "Ok"
    ELSE LET sender == transactions[i].sender
         IN  IF sender # Identity /\ ~HasBalance(bal, sender)
             THEN "NotFound"
             ELSE IF sender # Identity /\ bal[sender] < transactions[i].amount
             THEN "InvalidData"
             ELSE verify_transactions(bal, transactions, i + 1)

\* a height test that also admits blocks further ahead
IsNextHeight_OrLater(latest_block_height, added_block_height) ==
    latest_block_height <= added_block_height - 1

\* add_block: latest_block_height == added_block_height - 1
IsNextHeight(latest_block_height, added_block_height) ==
    latest_block_height = added_block_height - 1

\* blocks handed to the store: any height, a few transaction lists
P3 == 3
K3 == PubKey(P3)

StoreLoads ==
    { <<>>,
      <<T>>,
      <<T, reward_transaction(K3)>>,
      <<TransactionNew(K1, K2, INIT_BALANCE + 1, P1)>>,
      <<TransactionNew(K3, K1, 1, P3)>> }

StoreBlock(height, transactions) ==
    set_hash([height |-> height, hash |-> <<>>,
              timestamp |-> GenesisTime + height, nonce |-> 0,
              difficulty |-> MaxDifficulty, prev_hash |-> <<>>,
              merkel_root |-> get_merkel_root(transactions),
              transactions |-> transactions])

\* the operation ends: its result is visible until the caller goes on
StoreEnds(ret) ==
    /\ st_pc' = "returned"
    /\ st_ret' = ret

\* BlocksDB::init_db(point1, point2): put_block(genesis).unwrap() panics
\* when a block of height 0 is stored already
InitDb ==
    /\ st_pc = "idle"
    /\ st_op' = "init_db"
    /\ st_block' = Genesis
    /\ st_pre' = Store
    /\ st_i' = 0
    /\ IF HasBlock(db_blocks, 0)
       THEN /\ StoreEnds("panic")
            /\ UNCHANGED <<db_blocks, db_latest, db_bal>>
       ELSE /\ db_blocks' = put_block(db_blocks, Genesis)
            /\ db_latest' = update_latest_block(Genesis)
            /\ db_bal' = update_balance(update_balance(db_bal, K1, INIT_BALANCE),
                                        K2, INIT_BALANCE)
            /\ StoreEnds("Ok")
    /\ UNCHANGED <<chainVars, s4,
                   st_applied, pushVars, pureVars>>

\* BlocksDB::add_block, from the call to its first write: the tip is read,
\* the height is classified, and for the next height the latest pointer is
\* written (update_latest_block)
StoreAddBlockOf(heights, loads) ==
    /\ st_pc = "idle"
    /\ LET latest_block == IF db_latest = NoBytes THEN NoBlock
                           ELSE db_get_latest_block(db_latest)
       IN  \E height \in heights, load \in loads :
             LET block == StoreBlock(height, load)
             IN  /\ st_op' = "add_block"
                 /\ st_block' = block
                 /\ st_pre' = Store
                 /\ st_i' = 0
                 /\ IF latest_block = NoBlock
                    THEN /\ StoreEnds("NotFound")
                         /\ UNCHANGED db_latest
                    ELSE IF block.height = 0
                    THEN /\ StoreEnds("NotSupported")
                         /\ UNCHANGED db_latest
                    ELSE IF IsNextHeight(latest_block.height, block.height)
                    THEN /\ db_latest' = update_latest_block(block)
                         /\ st_pc' = "verify"
                         /\ st_ret' = "none"
                    ELSE /\ StoreEnds("NotSupported")
                         /\ UNCHANGED db_latest
    /\ UNCHANGED <<db_blocks, db_bal, chainVars, s4,
                   st_applied, pushVars, pureVars>>

StoreAddBlock == StoreAddBlockOf(0..(MaxHeight + 1), StoreLoads)

\* where update_chainstate returns to: add_block goes on to put_block,
\* rebuild_chainstate to the test of its loop
AfterChainstate(op) ==
    IF op = "add_block" THEN "put_block" ELSE "rebuild_loop"

\* update_chainstate, first statement: verify_transactions(&transactions)?
StoreVerify ==
    /\ st_pc = "verify"
    /\ LET v == verify_transactions(db_bal, st_block.transactions, 1)
       IN  IF v # "Ok"
           THEN /\ StoreEnds(v)
                /\ UNCHANGED st_i
           ELSE /\ st_i' = 1
                /\ st_pc' = IF Len(st_block.transactions) = 0
                            THEN AfterChainstate(st_op) ELSE "debit"
                /\ st_ret' = "none"
    /\ UNCHANGED <<db_blocks, db_latest, db_bal, st_op, st_block, st_pre,
                   chainVars, s4,
                   st_applied, pushVars, pureVars>>

\* update_chainstate, loop body, first half: the sender of transaction
\* st_i is charged unless the transaction is a miner reward
StoreDebit ==
    /\ st_pc = "debit"
    /\ LET t == st_block.transactions[st_i]
       IN  IF t.sender = Identity
           THEN /\ st_pc' = "credit"
                /\ UNCHANGED <<db_bal, st_ret>>
           ELSE IF ~HasBalance(db_bal, t.sender)
           THEN /\ StoreEnds("NotFound")
                /\ UNCHANGED db_bal
           ELSE /\ db_bal' = update_balance(db_bal, t.sender,
                                            F32(db_bal[t.sender] - t.amount))
                /\ st_pc' = "credit"
                /\ UNCHANGED st_ret
    /\ UNCHANGED <<db_blocks, db_latest, st_op, st_block, st_i, st_pre,
                   chainVars, s4,
                   st_applied, pushVars, pureVars>>

\* update_chainstate, loop body, second half: the recipient is credited,
\* from 0 when it has no balance yet
StoreCredit ==
    /\ st_pc = "credit"
    /\ LET t == st_block.transactions[st_i]
           old == IF HasBalance(db_bal, t.recipient)
                  THEN db_bal[t.recipient] ELSE 0
       IN  db_bal' = update_balance(db_bal, t.recipient,
                                    F32(old + t.amount))
    /\ st_i' = st_i + 1
    /\ st_pc' = IF st_i = Len(st_block.transactions)
                THEN AfterChainstate(st_op) ELSE "debit"
    /\ UNCHANGED <<db_blocks, db_latest, st_op, st_block, st_ret, st_pre,
                   chainVars, s4,
                   st_applied, pushVars, pureVars>>

\* add_block's last statement, put_block: AlreadyExists when the height
\* key is taken, else the block is written under its height
StorePutBlock ==
    /\ st_pc = "put_block"
    /\ IF HasBlock(db_blocks, st_block.height)
       THEN /\ StoreEnds("AlreadyExists")
            /\ UNCHANGED db_blocks
       ELSE /\ db_blocks' = put_block(db_blocks, st_block)
            /\ StoreEnds("Ok")
    /\ UNCHANGED <<db_latest, db_bal, st_op, st_block, st_i, st_pre,
                   chainVars, s4,
                   st_applied, pushVars, pureVars>>

\* the process stops in the middle of add_block; what was flushed stays
StoreCrash ==
    /\ st_pc \in {"verify", "debit", "credit", "put_block"}
    /\ StoreEnds("crashed")
    /\ UNCHANGED <<db_blocks, db_latest, db_bal, st_op, st_block, st_i,
                   st_pre, chainVars, s4,
                   st_applied, pushVars, pureVars>>

\* the caller (or the restarted process) goes on to the next operation
StoreReturn ==
    /\ st_pc = "returned"
    /\ st_pc' = "idle"
    /\ st_op' = "none"
    /\ st_block' = NoBlock
    /\ st_i' = 0
    /\ st_ret' = "none"
    /\ st_pre' = Store
    /\ UNCHANGED <<db_blocks, db_latest, db_bal, chainVars, s4,
                   st_applied, pushVars, pureVars>>

NextStore ==
    \/ InitDb
    \/ StoreAddBlock
    \/ StoreVerify
    \/ StoreDebit
    \/ StoreCredit
    \/ StorePutBlock
    \/ StoreCrash
    \/ StoreReturn

\* the chain engine, the store and the peer adapter at rest
InitIdle ==
    /\ chain = BlockchainNew(GenesisTime)
    /\ overflow_checks = FALSE
    /\ cand = NoBlock
    /\ outcome = "none"
    /\ old_chain = chain
    /\ s4 = NoScenario
    /\ InitStore
    /\ InitPush

InitStoreSpec ==
    /\ InitIdle
    /\ InitPure

SpecStore == InitStoreSpec /\ [][NextStore]_vars

(***************************************************************************)
(* The chainstate under transaction sets of every shape                    *)
(***************************************************************************)
\* transaction lists a block may carry: a transfer, a transfer with a
\* reward, the same funds spent twice, a negative amount, funds received
\* and spent in the same list by a key without a balance, an overspend,
\* coins sent by the identity point in another amount than REWARD
ChainstateLoads ==
    { <<T>>,
      <<T, reward_transaction(K3)>>,
      <<TransactionNew(K1, K2, INIT_BALANCE, P1),
        TransactionNew(K1, K2, INIT_BALANCE, P1)>>,
      <<TransactionNew(K1, K2, 0 - (INIT_BALANCE + 1), P1)>>,
      <<TransactionNew(K1, K3, 2, P1), TransactionNew(K3, K2, 1, P3)>>,
      <<TransactionNew(K1, K2, INIT_BALANCE + 1, P1)>>,
      <<TransactionNew(Identity, K1, 2 * INIT_BALANCE, P1)>> }

\* BlocksDB::add_block with one of these lists
ChainstateAddBlock == StoreAddBlockOf(0..MaxHeight, ChainstateLoads)

NextChainstate ==
    \/ InitDb
    \/ ChainstateAddBlock
    \/ StoreVerify
    \/ StoreDebit
    \/ StoreCredit
    \/ StorePutBlock
    \/ StoreReturn

SpecChainstate == InitStoreSpec /\ [][NextChainstate]_vars

(***************************************************************************)
(* rebuild_chainstate over a store filled by successful add_block calls    *)
(***************************************************************************)
\* transaction lists the funded keys can always pay for
RebuildLoads == {<<>>, <<T>>, <<T, reward_transaction(K3)>>}

RebuildAddBlock == StoreAddBlockOf(0..(MaxHeight + 1), RebuildLoads)

\* BlocksDB::clear_chainstate: every key with the userPK_ prefix is deleted
clear_chainstate(bal) == <<>>

\* BlocksDB::rebuild_chainstate up to its loop: the chainstate is cleared,
\* then block 0 and the latest block are read (either read may fail)
StoreRebuild ==
    /\ st_pc = "idle"
    /\ st_op' = "rebuild_chainstate"
    /\ st_pre' = Store
    /\ st_i' = 0
    /\ st_applied' = <<>>
    /\ db_bal' = clear_chainstate(db_bal)
    /\ IF ~HasBlock(db_blocks, 0) \/ db_latest = NoBytes
       THEN /\ StoreEnds("NotFound")
            /\ st_block' = NoBlock
       ELSE /\ st_block' = get_block(db_blocks, 0)
            /\ st_pc' = "rebuild_loop"
            /\ st_ret' = "none"
    /\ UNCHANGED <<db_blocks, db_latest, chainVars, s4, pushVars, pureVars>>

\* the loop of rebuild_chainstate: while curr_height <= latest_block_height
\* the transactions of curr_block go to update_chainstate; curr_block and
\* curr_height are immutable bindings (st_block is curr_block, and the
\* latest pointer is not written while the loop runs)
StoreRebuildLoop ==
    /\ st_pc = "rebuild_loop"
    /\ LET latest_block_height == db_get_latest_block(db_latest).height
           curr_height == st_block.height
       IN  IF curr_height <= latest_block_height
           THEN /\ st_pc' = "verify"
                /\ st_applied' = IF Len(st_applied) < MaxReplay
                                 THEN Append(st_applied, curr_height)
                                 ELSE st_applied
                /\ UNCHANGED st_ret
           ELSE /\ StoreEnds("Ok")
                /\ UNCHANGED st_applied
    /\ UNCHANGED <<db_blocks, db_latest, db_bal, st_op, st_block, st_i,
                   st_pre, chainVars, s4, pushVars, pureVars>>

NextRebuild ==
    \/ InitDb
    \/ RebuildAddBlock
    \/ StoreVerify
    \/ StoreDebit
    \/ StoreCredit
    \/ StorePutBlock
    \/ StoreRebuild
    \/ StoreRebuildLoop
    \/ StoreReturn

SpecRebuild == InitStoreSpec /\ [][NextRebuild]_vars

(***************************************************************************)
(* Peer adapter (src/network/req.rs): PushBlock requests on two            *)
(* connections, each served by its own call of handle_client_request,      *)
(* over the store behind the GLOBAL_DB mutex                               *)
(***************************************************************************)
\* difficulty 0x00000000, which no digest of the model meets
ZeroDifficulty == [k \in 1..8 |-> 0]

PushKinds == {"mined", "empty", "bad_hash", "forged", "unsigned", "unmined",
              "all_bad", "short_hash"}

\* a block as a peer may push it, for the tip the peer believes in:
\* mined on the tip, or with fields set so that one, or each, of the
\* checks of the block on itself fails
PushBlockOf(tip, height, kind) ==
    LET now == tip.timestamp + BLOCK_SPEED
        unsigned == <<[T EXCEPT !.signature = EmptySignature]>>
        forged == <<[T EXCEPT !.amount = 2]>>
        base(transactions) ==
            LET b == BlockNew(tip, transactions, now)
            IN  set_hash([set_difficulty(b, get_new_block_difficulty(<<tip>>, b))
                            EXCEPT !.height = height])
        m == Mine(base(<<T>>))
    IN  CASE kind = "mined" -> m
          [] kind = "empty" -> Mine(base(<<>>))
          [] kind = "bad_hash" -> [m EXCEPT !.hash = increment_and_hash(m).hash]
          [] kind = "forged" -> Mine(base(forged))
          [] kind = "unsigned" -> Mine(base(unsigned))
          [] kind = "unmined" -> set_difficulty(m, ZeroDifficulty)
          [] kind = "all_bad" ->
                [set_difficulty(base(forged), ZeroDifficulty)
                    EXCEPT !.hash = m.hash]
          [] kind = "short_hash" ->
                [base(forged) EXCEPT !.hash = Str(<<"a", "b">>)]

\* send_response: the response is written to the stream, the stream is
\* closed, and the handler returns
Sent(h, res_type, status, at) ==
    [h EXCEPT !.pc = "done", !.res_type = res_type, !.status = status,
              !.at = at, !.sent = @ + 1]

\* a response of handle_push_block, whose res_type is PushBlock
Reply(c, status, at) ==
    hp' = [hp EXCEPT ![c] = Sent(@, "PushBlock", status, at)]

\* handle_client_request with a ConnectTest request: handle_connect_test
\* answers ConnectTest, OK
HandleConnectTest(c) ==
    /\ hp[c].pc = "idle"
    /\ hp' = [hp EXCEPT ![c] = Sent([@ EXCEPT !.req_type = "ConnectTest"],
                                    "ConnectTest", "OK", "connect_test")]
    /\ UNCHANGED <<chainVars, s4, storeVars, db_lock, pureVars>>

handle_no_block_BadData(h) ==
    Sent(h, "PushBlock", "BadData", "block_is_none")

\* handle_push_block, check for bad request: req.block.is_none()
handle_no_block(h) ==
    Sent(h, "PushBlock", "BadReq", "block_is_none")

\* handle_client_request with a PushBlock request, up to the call of
\* handle_push_block and its first test
PushReceive(c) ==
    /\ hp[c].pc = "idle"
    /\ LET tip == IF db_latest = NoBytes THEN Genesis
                  ELSE db_get_latest_block(db_latest)
       IN  \/ hp' = [hp EXCEPT ![c] =
                        handle_no_block([@ EXCEPT !.req_type = "PushBlock"])]
           \/ \E kind \in PushKinds,
                 height \in {h \in (tip.height - 1)..(tip.height + 2) : h >= 0} :
                 hp' = [hp EXCEPT ![c] = [@ EXCEPT
                           !.pc = "check",
                           !.req_type = "PushBlock",
                           !.block = PushBlockOf(tip, height, kind)]]
    /\ UNCHANGED <<chainVars, s4, storeVars, db_lock, pureVars>>

\* handle_push_block, preliminary block checks:
\* if block.verify_hash() || block.verify_transactions()
\*    || block.confirm_difficulty() { BadData }
\* evaluated left to right; confirm_difficulty panics on a short hash
PreliminaryChecks(block) ==
    IF confirm_hash(block) THEN "BadData"
    ELSE IF confirm_transactions(block) THEN "BadData"
    ELSE IF verify_difficulty_panics(block.hash) THEN "panic"
    ELSE IF confirm_difficulty(block) THEN "BadData"
    ELSE "pass"

PushSelfCheck(c) ==
    /\ hp[c].pc = "check"
    /\ LET r == PreliminaryChecks(hp[c].block)
       IN  IF r = "BadData" THEN Reply(c, "BadData", "self_check")
           ELSE IF r = "panic"
           THEN hp' = [hp EXCEPT ![c] = [@ EXCEPT !.pc = "panicked"]]
           ELSE hp' = [hp EXCEPT ![c] = [@ EXCEPT !.pc = "lock"]]
    /\ UNCHANGED <<chainVars, s4, storeVars, db_lock, pureVars>>

\* GLOBAL_DB.lock(): the handler waits until the mutex is free
PushLock(c) ==
    /\ hp[c].pc = "lock"
    /\ db_lock = 0
    /\ db_lock' = c
    /\ hp' = [hp EXCEPT ![c] = [@ EXCEPT !.pc = "locked", !.locked = TRUE]]
    /\ UNCHANGED <<chainVars, s4, storeVars, pureVars>>

\* handle_push_block: latest_block.get_height() > block.get_height()
IsStale(latest_block_height, block_height) ==
    latest_block_height > block_height

\* handle_push_block under the mutex: the latest block is read and the
\* heights are compared; nothing is written; the guard is dropped and the
\* reply sent
PushCheckTip(c) ==
    /\ hp[c].pc = "locked"
    /\ db_lock' = 0
    /\ IF db_latest = NoBytes
       THEN Reply(c, "IntErr", "get_latest_block")
       ELSE IF IsStale(db_get_latest_block(db_latest).height,
                       hp[c].block.height)
       THEN Reply(c, "BadData", "stale")
       ELSE Reply(c, "OK", "end")
    /\ UNCHANGED <<chainVars, s4, storeVars, pureVars>>

NextPush ==
    \E c \in Conns :
        \/ HandleConnectTest(c)
        \/ PushReceive(c)
        \/ PushSelfCheck(c)
        \/ PushLock(c)
        \/ PushCheckTip(c)

\* the stores a node may serve requests over: a fresh database, the
\* database after init_db, and after add_block of a block of height 1
PushStores ==
    LET fresh == [blocks |-> <<>>, latest |-> NoBytes, bal |-> <<>>]
        funded == update_balance(update_balance(<<>>, K1, INIT_BALANCE),
                                 K2, INIT_BALANCE)
        b1 == StoreBlock(1, <<T>>)
        inited == [blocks |-> put_block(<<>>, Genesis),
                   latest |-> update_latest_block(Genesis),
                   bal |-> funded]
        added == [blocks |-> put_block(inited.blocks, b1),
                  latest |-> update_latest_block(b1),
                  bal |-> update_balance(
                             update_balance(funded, K1, funded[K1] - T.amount),
                             K2, funded[K2] + T.amount)]
    IN  {fresh, inited, added}

InitPushSpec ==
    /\ chain = BlockchainNew(GenesisTime)
    /\ overflow_checks = FALSE
    /\ cand = NoBlock
    /\ outcome = "none"
    /\ old_chain = chain
    /\ s4 = NoScenario
    /\ \E store \in PushStores :
          /\ db_blocks = store.blocks
          /\ db_latest = store.latest
          /\ db_bal = store.bal
          /\ st_pre = store
    /\ st_pc = "idle"
    /\ st_op = "none"
    /\ st_block = NoBlock
    /\ st_i = 0
    /\ st_ret = "none"
    /\ st_applied = <<>>
    /\ InitPush
    /\ InitPure

SpecPush == InitPushSpec /\ [][NextPush]_vars

(***************************************************************************)
(* sign and verify_signature on their own: every private key, every nonce  *)
(* sign may draw (modulo(entropy(), p)) and the messages of the model      *)
(***************************************************************************)
InitEcdsa ==
    /\ call = NoCall
    /\ InitIdle
    /\ vd = NoCall
    /\ ct = NoCall
    /\ blk = NoBlock
    /\ mk = NoCall
    /\ \E message \in Messages,
          d \in 1..(Secp256k1.n - 1),
          k \in 0..(Secp256k1.p - 1) :
          ec = [pc |-> "start", message |-> message, d |-> d, k |-> k,
                public_key |-> multiply(Secp256k1.g, d, W,
                                        get_curve_precomputed_points),
                signature |-> get_empty, ok |-> FALSE]

\* sign(message, d, Some(k))
EcdsaSign ==
    /\ ec.pc = "start"
    /\ LET signature == ecdsa_sign(ec.message, ec.d, ec.k)
       IN  IF signature = Diverges
           THEN ec' = [ec EXCEPT !.pc = "diverged"]
           ELSE ec' = [ec EXCEPT !.pc = "signed", !.signature = signature]
    /\ UNCHANGED <<chainVars, s4, storeVars, pushVars, vd, ct, blk, mk, call>>

\* verify_signature of the signature made, under the signer's public key
EcdsaVerify ==
    /\ ec.pc = "signed"
    /\ ec' = [ec EXCEPT !.pc = "verified",
                        !.ok = ecdsa_verify_signature(ec.signature, ec.message,
                                                      ec.public_key)]
    /\ UNCHANGED <<chainVars, s4, storeVars, pushVars, vd, ct, blk, mk, call>>

\* verify_signature of Signature::get_empty() under a public key
EcdsaVerifyEmpty ==
    /\ ec.pc = "start"
    /\ ec' = [ec EXCEPT !.pc = "verified_empty",
                        !.ok = ecdsa_verify_signature(get_empty, ec.message,
                                                      ec.public_key)]
    /\ UNCHANGED <<chainVars, s4, storeVars, pushVars, vd, ct, blk, mk, call>>

NextEcdsa ==
    \/ EcdsaSign
    \/ EcdsaVerify
    \/ EcdsaVerifyEmpty

SpecEcdsa == InitEcdsa /\ [][NextEcdsa]_vars

(***************************************************************************)
(* verify_difficulty on its own                                            *)
(***************************************************************************)
\* the nibbles a hash tail or a difficulty is made of
TailNibbles == {0, 7, 8, 15}

\* eight nibbles, all base but one
Nibbles8 ==
    {[k \in 1..8 |-> IF k = at THEN one ELSE base] :
        base \in {0, 7, 15}, one \in TailNibbles, at \in 1..8}

\* the hash spelled with these last eight characters, after a first one
HexString(nibbles) ==
    Str(<<"f">>) \o [j \in 1..8 |-> HexDigitChar[nibbles[9 - j] + 1]]

\* hashes handed to verify_difficulty: hex strings and digests
DifficultyHashes ==
    {HexString(n) : n \in Nibbles8}
        \cup {hash(Dec(m)) : m \in 0..MaxNonce}

InitDifficulty ==
    /\ call = NoCall
    /\ InitIdle
    /\ ec = NoCall
    /\ ct = NoCall
    /\ blk = NoBlock
    /\ mk = NoCall
    /\ \E h \in DifficultyHashes, difficulty \in Nibbles8 :
          vd = [pc |-> "start", hash |-> h, difficulty |-> difficulty,
                ok |-> FALSE]

\* Block::verify_difficulty(hash, difficulty)
VerifyDifficulty ==
    /\ vd.pc = "start"
    /\ vd' = [vd EXCEPT !.pc = "done",
                        !.ok = verify_difficulty(vd.hash, vd.difficulty)]
    /\ UNCHANGED <<chainVars, s4, storeVars, pushVars, ec, ct, blk, mk, call>>

NextDifficulty == VerifyDifficulty

SpecDifficulty == InitDifficulty /\ [][NextDifficulty]_vars

(***************************************************************************)
(* confirm_transactions on its own, on lists around the limit              *)
(***************************************************************************)
\* the transfer T with its amount changed after signing
ForgedT == [T EXCEPT !.amount = 2]

\* the transfer T carrying the empty signature
UnsignedT == [T EXCEPT !.signature = EmptySignature]

\* coins sent by the identity point, signed with the key P1
MintedT == TransactionNew(Identity, K1, 2 * INIT_BALANCE, P1)

\* a head of up to two transactions, followed by rewards up to a length
\* near TRANSACTION_LIMIT_PER_BLOCK
ConfirmHeads ==
    LET E == {T, ForgedT, UnsignedT, reward_transaction(K1), MintedT}
    IN  {<<>>} \cup {<<a>> : a \in E} \cup {<<a, b>> : a \in E, b \in E}

ConfirmPads == {0, TRANSACTION_LIMIT_PER_BLOCK - 2,
                TRANSACTION_LIMIT_PER_BLOCK - 1, TRANSACTION_LIMIT_PER_BLOCK}

Padded(head, pad) ==
    head \o [i \in 1..pad |-> reward_transaction(K2)]

InitConfirm ==
    /\ call = NoCall
    /\ InitIdle
    /\ ec = NoCall
    /\ vd = NoCall
    /\ blk = NoBlock
    /\ mk = NoCall
    /\ \E head \in ConfirmHeads, pad \in ConfirmPads :
          ct = [pc |-> "start", transactions |-> Padded(head, pad),
                ok |-> FALSE]

\* Block::confirm_transactions of a block holding the list, as a peer may
\* serialize one
ConfirmTransactions ==
    /\ ct.pc = "start"
    /\ ct' = [ct EXCEPT !.pc = "done",
                        !.ok = confirm_transactions(
                                   [Genesis EXCEPT
                                       !.transactions = ct.transactions])]
    /\ UNCHANGED <<chainVars, s4, storeVars, pushVars, ec, vd, blk, mk, call>>

NextConfirm == ConfirmTransactions

SpecConfirm == InitConfirm /\ [][NextConfirm]_vars

(***************************************************************************)
(* A block built by Block::new_genesis or Block::new and mutated by        *)
(* reward_miner, set_difficulty and increment_and_hash in any order        *)
(***************************************************************************)
\* the transfer back, K2 to K1
T2 == TransactionNew(K2, K1, 1, P2)

BlockLoads == {<<>>, <<T>>, <<T, T2>>, <<T, reward_transaction(K2)>>}

BlockDifficulties ==
    {MaxDifficulty, ZeroDifficulty, [k \in 1..8 |-> IF k = 1 THEN 14 ELSE 15]}

InitBlock ==
    /\ call = NoCall
    /\ InitIdle
    /\ ec = NoCall
    /\ vd = NoCall
    /\ ct = NoCall
    /\ mk = NoCall
    /\ blk = NoBlock

\* Block::new_genesis()
BlockNewGenesis ==
    /\ blk = NoBlock
    /\ \E now \in {GenesisTime, GenesisTime + 1} : blk' = new_genesis(now)
    /\ UNCHANGED <<chainVars, s4, storeVars, pushVars, ec, vd, ct, mk, call>>

\* Block::new(prev_block, transactions)
BlockNewOn ==
    /\ blk = NoBlock
    /\ \E transactions \in BlockLoads,
          now \in {GenesisTime + 1, GenesisTime + BLOCK_SPEED} :
          blk' = BlockNew(Genesis, transactions, now)
    /\ UNCHANGED <<chainVars, s4, storeVars, pushVars, ec, vd, ct, mk, call>>

\* block.reward_miner(miner_address)
BlockRewardMiner ==
    /\ blk # NoBlock
    /\ \E miner_address \in {K1, K2} : blk' = reward_miner(blk, miner_address)
    /\ UNCHANGED <<chainVars, s4, storeVars, pushVars, ec, vd, ct, mk, call>>

\* block.set_difficulty(diff)
BlockSetDifficulty ==
    /\ blk # NoBlock
    /\ \E diff \in BlockDifficulties : blk' = set_difficulty(blk, diff)
    /\ UNCHANGED <<chainVars, s4, storeVars, pushVars, ec, vd, ct, mk, call>>

\* block.increment_and_hash()
BlockIncrementAndHash ==
    /\ blk # NoBlock
    /\ blk.nonce < MaxNonce
    /\ blk' = increment_and_hash(blk)
    /\ UNCHANGED <<chainVars, s4, storeVars, pushVars, ec, vd, ct, mk, call>>

NextBlock ==
    \/ BlockNewGenesis
    \/ BlockNewOn
    \/ BlockRewardMiner
    \/ BlockSetDifficulty
    \/ BlockIncrementAndHash

SpecBlock == InitBlock /\ [][NextBlock]_vars

(***************************************************************************)
(* get_merkel_root on its own, on every list of up to MaxLeaves            *)
(* transactions, and on the list with two of its positions swapped         *)
(***************************************************************************)
MerkelTransactions == {T, T2, reward_transaction(K1)}

RECURSIVE ListsOf(_, _)
\* the lists of exactly n elements of S
ListsOf(S, n) ==
    IF n = 0 THEN {<<>>}
    ELSE {Append(l, e) : l \in ListsOf(S, n - 1), e \in S}

\* the list with positions i and j swapped
Swapped(l, i, j) ==
    [k \in 1..Len(l) |-> IF k = i THEN l[j] ELSE IF k = j THEN l[i] ELSE l[k]]

InitMerkel ==
    /\ call = NoCall
    /\ InitIdle
    /\ ec = NoCall
    /\ vd = NoCall
    /\ ct = NoCall
    /\ blk = NoBlock
    /\ \E n \in 0..MaxLeaves :
          \E transactions \in ListsOf(MerkelTransactions, n) :
             mk = [pc |-> "start", transactions |-> transactions,
                   root |-> <<>>, i |-> 0, j |-> 0, swapped_root |-> <<>>]

\* get_merkel_root(&transactions)
MerkelRoot ==
    /\ mk.pc = "start"
    /\ mk' = [mk EXCEPT !.pc = "rooted",
                        !.root = get_merkel_root(mk.transactions)]
    /\ UNCHANGED <<chainVars, s4, storeVars, pushVars, ec, vd, ct, blk, call>>

\* get_merkel_root of the list with two transactions swapped
MerkelRootSwapped ==
    /\ mk.pc = "rooted"
    /\ \E i \in 1..Len(mk.transactions), j \in 1..Len(mk.transactions) :
          /\ i < j
          /\ mk' = [mk EXCEPT
                       !.pc = "swapped", !.i = i, !.j = j,
                       !.swapped_root =
                           get_merkel_root(Swapped(mk.transactions, i, j))]
    /\ UNCHANGED <<chainVars, s4, storeVars, pushVars, ec, vd, ct, blk, call>>

NextMerkel ==
    \/ MerkelRoot
    \/ MerkelRootSwapped

SpecMerkel == InitMerkel /\ [][NextMerkel]_vars

(***************************************************************************)
(* Scalar multiplication called on its own (specification SpecMultiply):   *)
(* the w-NAF Point::multiply of point.rs over the table of the point, and  *)
(* the binary Point::multiply of curve.rs, for the same point and scalar.  *)
(***************************************************************************)
\* the points multiplied: the generator, 5 G and -G
MultiplyPoints ==
    {Secp256k1.g, ScalarMultiple(Secp256k1.g, 5),
     ScalarMultiple(Secp256k1.g, Secp256k1.n - 1)}

InitMultiply ==
    /\ InitIdle
    /\ InitPure

\* p.multiply(k, W, &precompute_points(p, W)) and p.multiply(k)
Multiply ==
    /\ call.pc = "none"
    /\ \E p \in MultiplyPoints, k \in 0..MaxScalar :
          call' = [pc |-> "multiplied", p |-> p, k |-> k,
                   pre_comp |-> precompute_points(p, W),
                   wnaf |-> multiply(p, k, W, precompute_points(p, W)),
                   plain |-> Curve_multiply(p, k)]
    /\ UNCHANGED <<chainVars, s4, storeVars, pushVars, ec, vd, ct, blk, mk>>

NextMultiply == Multiply

SpecMultiply == InitMultiply /\ [][NextMultiply]_vars

(***************************************************************************)
(* modular_multiplicative_inverse called on its own (specification         *)
(* SpecInverse), for moduli from 0 and operands of either sign.             *)
(***************************************************************************)
RECURSIVE GCD(_, _)
\* the greatest common divisor of two natural numbers
GCD(a, b) == IF b = 0 THEN a ELSE GCD(b, a % b)

Abs(x) == IF x < 0 THEN 0 - x ELSE x

InitInverse ==
    /\ InitIdle
    /\ InitPure

\* modular_multiplicative_inverse(&m, b, None, None)
Inverse ==
    /\ call.pc = "none"
    /\ \E m \in 0..MaxModulus,
          b \in (0 - 2 * MaxModulus)..(2 * MaxModulus) :
          call' = IF modular_multiplicative_inverse_panics(m, b)
                  THEN [pc |-> "panicked", m |-> m, b |-> b]
                  ELSE [pc |-> "returned", m |-> m, b |-> b,
                        result |->
                            modular_multiplicative_inverse(m, b, 0, 1)]
    /\ UNCHANGED <<chainVars, s4, storeVars, pushVars, ec, vd, ct, blk, mk>>

NextInverse == Inverse

SpecInverse == InitInverse /\ [][NextInverse]_vars

(***************************************************************************)
(* Block::get_supposed_difficulty called on its own (specification         *)
(* SpecSupposed): a base block of any difficulty and a candidate stamped   *)
(* before it, with it, BLOCK_SPEED after it or later, in either build.     *)
(***************************************************************************)
\* the difficulties of the base block: nibbles 0 and 0xF, and at most one
\* nibble in between
SupposedDifficulties ==
    {d \in [1..8 -> {0, 8, 15}] : Cardinality({i \in 1..8 : d[i] = 8}) <= 1}

\* the timestamp of the candidate, the base block being stamped GenesisTime
SupposedTimestamps ==
    {GenesisTime - 1, GenesisTime, GenesisTime + BLOCK_SPEED,
     GenesisTime + BLOCK_SPEED + 1}

InitSupposed ==
    /\ InitIdle
    /\ InitPure

\* Block::get_supposed_difficulty(&base_block, &comp_block): the
\* subtraction of the timestamps panics in a build with overflow checks
GetSupposedDifficulty ==
    /\ call.pc = "none"
    /\ \E difficulty \in SupposedDifficulties,
          timestamp \in SupposedTimestamps,
          checks \in BOOLEAN :
          LET base_block == set_difficulty(new_genesis(GenesisTime),
                                           difficulty)
              comp_block == BlockNew(base_block, <<>>, timestamp)
          IN  call' =
                  IF checks /\ U64SubOverflows(comp_block.timestamp,
                                               base_block.timestamp)
                  THEN [pc |-> "panicked", base_block |-> base_block,
                        comp_block |-> comp_block]
                  ELSE [pc |-> "returned", base_block |-> base_block,
                        comp_block |-> comp_block,
                        difficulty |->
                            get_supposed_difficulty(base_block, comp_block)]
    /\ UNCHANGED <<chainVars, s4, storeVars, pushVars, ec, vd, ct, blk, mk>>

NextSupposed == GetSupposedDifficulty

SpecSupposed == InitSupposed /\ [][NextSupposed]_vars

(***************************************************************************)
(* reward_miner called again and again on a block (specification           *)
(* SpecReward): the block is built by Block::new over a list holding at    *)
(* most one transaction sent by the identity point, and is mined between   *)
(* the calls.                                                              *)
(***************************************************************************)
\* the lists the block is built over: none, one or two transfers, a reward
\* at the end, coins minted by the identity point at the front
RewardLoads == BlockLoads \cup {<<MintedT, T>>}

\* how many transactions of a block are sent by the identity point
Rewards(b) ==
    Cardinality({i \in 1..Len(b.transactions) :
                     b.transactions[i].sender = Identity})

InitReward ==
    /\ InitIdle
    /\ InitPure

\* Block::new(prev_block, transactions)
RewardNewOn ==
    /\ blk = NoBlock
    /\ \E transactions \in RewardLoads,
          now \in {GenesisTime + 1, GenesisTime + BLOCK_SPEED} :
          blk' = BlockNew(Genesis, transactions, now)
    /\ UNCHANGED <<chainVars, s4, storeVars, pushVars, ec, vd, ct, mk, call>>

\* block.reward_miner(miner_address), the block before and after the call
\* kept
RewardMiner ==
    /\ blk # NoBlock
    /\ \E miner_address \in {K1, K2} :
          /\ blk' = reward_miner(blk, miner_address)
          /\ call' = [pc |-> "rewarded", miner_address |-> miner_address,
                      before |-> blk, after |-> blk']
    /\ UNCHANGED <<chainVars, s4, storeVars, pushVars, ec, vd, ct, mk>>

NextReward ==
    \/ RewardNewOn
    \/ RewardMiner
    \/ BlockIncrementAndHash

SpecReward == InitReward /\ [][NextReward]_vars

(***************************************************************************)
(* calculate_wnaf called on its own (specification SpecWnaf), for windows  *)
(* of 2 to MaxWidth bits, the window W = 4 of the program among them.      *)
(***************************************************************************)
InitWnaf ==
    /\ InitIdle
    /\ InitPure

\* calculate_wnaf(w, n)
CalculateWnaf ==
    /\ call.pc = "none"
    /\ \E w \in 2..MaxWidth, n \in 0..MaxScalar :
          call' = [pc |-> "recoded", w |-> w, n |-> n,
                   wnaf |-> calculate_wnaf(w, n)]
    /\ UNCHANGED <<chainVars, s4, storeVars, pushVars, ec, vd, ct, blk, mk>>

NextWnaf == CalculateWnaf

SpecWnaf == InitWnaf /\ [][NextWnaf]_vars

(***************************************************************************)
(* sign followed pass by pass (specification SpecSign): each pass computes *)
(* r and sigma from the nonce at hand and either returns the signature or  *)
(* calls sign again.                                                       *)
(***************************************************************************)
\* the private keys of the calls
SignKeys == {1, 2, Secp256k1.n - 1}

InitSign ==
    /\ InitIdle
    /\ InitPure

\* sign(message, d, Some(k)), or sign(message, d, None) with k drawn
SignCall ==
    /\ call.pc = "none"
    /\ \E message \in Messages, d \in SignKeys, k \in 0..MaxScalar :
          call' = [pc |-> "sign", message |-> message, d |-> d, k0 |-> k,
                   k |-> k, passes |-> 0, signature |-> get_empty]
    /\ UNCHANGED <<chainVars, s4, storeVars, pushVars, ec, vd, ct, blk, mk>>

\* one pass through the body of sign
SignPass ==
    /\ call.pc = "sign"
    /\ call.passes < MaxPasses
    /\ LET p == multiply(Secp256k1.g, call.k, W, get_curve_precomputed_points)
           r == modulo(p.x, Secp256k1.p)
           m == bigint_hash(call.message)
           sigma == modulo((call.d * r + m)
                             * modular_multiplicative_inverse(
                                   Secp256k1.n, call.k, 0, 1),
                           Secp256k1.n)
       IN  IF r = 0 \/ sigma = 0
           THEN call' = [call EXCEPT !.passes = @ + 1,
                                     !.k = sign_again(call.k)]
           ELSE call' = [call EXCEPT !.passes = @ + 1, !.pc = "returned",
                                     !.signature = [r |-> r, s |-> sigma]]
    /\ UNCHANGED <<chainVars, s4, storeVars, pushVars, ec, vd, ct, blk, mk>>

NextSign ==
    \/ SignCall
    \/ SignPass

SpecSign == InitSign /\ [][NextSign]_vars

(***************************************************************************)
(* The supply under transfers and mints of every size                      *)
(***************************************************************************)
\* 8388608.0 coins, the first magnitude at which an f32 no longer holds
\* every half coin
LargeAmount == 2 ^ F32Digits

\* transaction lists a block may carry: a transfer, a transfer with a
\* reward, a transfer of a key to itself, a large amount sent by the
\* identity point, small transfers to a key and from a key
SupplyLoads ==
    { <<T>>,
      <<T, reward_transaction(K3)>>,
      <<TransactionNew(K1, K1, 2, P1)>>,
      <<TransactionNew(Identity, K1, LargeAmount, P1)>>,
      <<TransactionNew(K2, K1, 1, P2)>>,
      <<TransactionNew(K1, K2, 3, P1)>> }

\* BlocksDB::add_block with one of these lists
SupplyAddBlock == StoreAddBlockOf(0..MaxHeight, SupplyLoads)

NextSupply ==
    \/ InitDb
    \/ SupplyAddBlock
    \/ StoreVerify
    \/ StoreDebit
    \/ StoreCredit
    \/ StorePutBlock
    \/ StoreReturn

SpecSupply == InitStoreSpec /\ [][NextSupply]_vars

(***************************************************************************)
(* The difficulties of the chains add_block accepts                        *)
(***************************************************************************)
\* a difficulty that keeps the nibbles of d in the opposite order
Reversed(d) == [i \in 1..8 |-> d[9 - i]]

\* the difficulties a candidate may carry on a tip of difficulty d: the two
\* steps, d itself, and values apart from them
RetargetOffers(d) ==
    {LoosenLoop(d, 28), TightenLoop(d, 0), d, Reversed(TightenLoop(d, 0)),
     [d EXCEPT ![8] = 7]}

\* a test of the difficulty that lets every candidate through
DifficultyAccepted_Any(difficulty, supposed_difficulty) == TRUE
\* Blockchain::add_block: new_block.get_difficulty() != supposed_difficulty
\* refuses the block
DifficultyAccepted(difficulty, supposed_difficulty) ==
    difficulty = supposed_difficulty

\* the tip of the chain: the genesis block first, then the block pushed
\* last; blocks are stamped relative to their tip, so the tip keeps
\* GenesisTime
RetargetTip ==
    IF call = NoCall THEN new_genesis(GenesisTime) ELSE call.tip

InitRetarget ==
    /\ InitIdle
    /\ InitPure

\* Blockchain::add_block of a block that is linked to the tip, hashed and
\* mined, and carries one of the offered difficulties: it is pushed when its
\* difficulty is the expected one; the subtraction of the timestamps panics
\* in a build with overflow checks
RetargetAddBlock ==
    \E d \in Deltas, checks \in BOOLEAN :
       \E difficulty \in RetargetOffers(RetargetTip.difficulty) :
          LET tip == RetargetTip
              new_block == set_difficulty(
                               BlockNew(tip, <<>>, tip.timestamp + d),
                               difficulty)
              panics == checks /\ U64SubOverflows(new_block.timestamp,
                                                  tip.timestamp)
          IN  /\ ~panics
              /\ DifficultyAccepted(new_block.difficulty,
                                    get_new_block_difficulty(<<tip>>,
                                                             new_block))
              /\ call' = [pc |-> "pushed",
                          tip |-> set_difficulty(new_genesis(GenesisTime),
                                                 new_block.difficulty),
                          latest_diff |-> tip.difficulty]
              /\ UNCHANGED <<chainVars, s4, storeVars, pushVars,
                             ec, vd, ct, blk, mk>>

NextRetarget == RetargetAddBlock

SpecRetarget == InitRetarget /\ [][NextRetarget]_vars

(***************************************************************************)
(* get_merkel_root of two transaction lists                                *)
(***************************************************************************)
\* the lists of up to MaxLeaves transactions
MerkelLists ==
    UNION {ListsOf(MerkelTransactions, n) : n \in 0..MaxLeaves}

\* the hashes of the transactions of a list, in order
TxHashes(transactions) ==
    [i \in 1..Len(transactions) |-> TxHash(transactions[i])]

InitCommit ==
    /\ InitIdle
    /\ InitPure

\* get_merkel_root(&transactions) and get_merkel_root(&other)
MerkelRoots ==
    /\ call = NoCall
    /\ \E transactions \in MerkelLists, other \in MerkelLists :
          call' = [pc |-> "rooted", transactions |-> transactions,
                   other |-> other,
                   root |-> get_merkel_root(transactions),
                   other_root |-> get_merkel_root(other)]
    /\ UNCHANGED <<chainVars, s4, storeVars, pushVars, ec, vd, ct, blk, mk>>

NextCommit == MerkelRoots

SpecCommit == InitCommit /\ [][NextCommit]_vars

(***************************************************************************)
(* Claims about the chain engine                                           *)
(***************************************************************************)
\* the last call was made and has ended (or panicked)
Called == outcome # "none"

\* the candidate of the last call fails one of the five checks of
\* add_block against the chain the call began with
FailsACheck ==
    LET tip == old_chain[Len(old_chain)]
        expected == get_new_block_difficulty(old_chain, cand)
    IN  \/ ~confirm_transactions(cand)
        \/ cand.prev_hash # tip.hash
        \/ cand.hash # hash(get_message(cand))
        \/ cand.difficulty # expected
        \/ verify_difficulty_panics(cand.hash)
        \/ ~verify_difficulty(cand.hash, expected)

\* C1: whenever the candidate fails a check, the call returns normally
\* and the chain is the same sequence of blocks as before the call.
C1_RejectedReturnsUnchanged ==
    (Called /\ FailsACheck) => (outcome # "panic" /\ chain = old_chain)

\* C2: every block but the first has the hash of its predecessor as
\* prev_hash, and a candidate whose prev_hash is not the hash of the tip
\* is never appended.
C2_Linked ==
    /\ \A i \in 2..Len(chain) : chain[i].prev_hash = chain[i - 1].hash
    /\ (Called /\ cand.prev_hash # old_chain[Len(old_chain)].hash)
          => chain = old_chain

\* C2 witness: on a chain of two blocks, a candidate that does not link to
\* the tip was refused
C2_Witness ==
    /\ Called
    /\ Len(old_chain) = 2
    /\ cand.prev_hash # old_chain[2].hash
    /\ outcome = "not_linked"

\* C3: the block at chain index i has height i (from 0): the chain is
\* gap-free and indexed by height.
C3_HeightIsIndex ==
    \A i \in 1..Len(chain) : chain[i].height = i - 1

\* C4: the chain starts with the genesis block, and each call leaves the
\* chain as it was or appends exactly the candidate as the last element.
C4_AppendOnly ==
    /\ chain[1] = Genesis
    /\ \/ chain = old_chain
       \/ Called /\ chain = Append(old_chain, cand)
    /\ \A i \in 1..Len(old_chain) :
          i <= Len(chain) /\ chain[i] = old_chain[i]

\* C4 witness: a second block was appended behind genesis and a first one
C4_Witness ==
    /\ outcome = "pushed"
    /\ Len(old_chain) = 2
    /\ Len(chain) = 3

\* C5: every accepted block at height > 0 meets its own difficulty, and
\* its difficulty is get_supposed_difficulty of its predecessor and itself.
C5_AcceptedDifficulty ==
    \A i \in 2..Len(chain) :
        /\ verify_difficulty(chain[i].hash, chain[i].difficulty)
        /\ chain[i].difficulty = get_supposed_difficulty(chain[i - 1], chain[i])

\* C6 as stated: added in order both blocks are accepted; added out of
\* order both are rejected and the chain holds only genesis.
C6_OutOfOrderRejectsBoth ==
    Len(s4.out) = 2 =>
        IF s4.order = "in_order"
        THEN s4.out = <<"pushed", "pushed">>
        ELSE /\ s4.out[1] # "pushed"
             /\ s4.out[2] # "pushed"
             /\ chain = <<Genesis>>

\* C6 amended: added in order both blocks are accepted; added out of
\* order B2 is rejected, leaving only genesis, and B1 is then accepted.
C6_InOrderAndOutOfOrder ==
    /\ (Len(s4.out) >= 1 /\ s4.order = "out_of_order")
          => (s4.out[1] = "not_linked"
              /\ (Len(s4.out) = 1 => chain = <<Genesis>>))
    /\ Len(s4.out) = 2 =>
          IF s4.order = "in_order"
          THEN /\ s4.out = <<"pushed", "pushed">>
               /\ chain = <<Genesis, s4.b1, s4.b2>>
          ELSE /\ s4.out = <<"not_linked", "pushed">>
               /\ chain = <<Genesis, s4.b1>>

\* C6 witness: both calls of the out-of-order run have ended
C6_Witness ==
    /\ s4.order = "out_of_order"
    /\ Len(s4.out) = 2

\* C7: add_block never panics.
C7_NeverPanics == outcome # "panic"


(***************************************************************************)
(* Claims about the node store                                             *)
(***************************************************************************)
\* the last store operation was add_block and it has returned
AddBlockReturned ==
    /\ st_op = "add_block"
    /\ st_pc = "returned"
    /\ st_ret # "crashed"

\* C8: the latest pointer is advanced only after the block and its
\* chainstate effects are written: while add_block is under way, and when
\* the process stopped in the middle of it, get_latest_block still
\* returns the previous tip.
C8_LatestAdvancedLast ==
    (st_op = "add_block"
       /\ (st_pc \in {"verify", "debit", "credit", "put_block"}
             \/ st_ret = "crashed"))
    => db_latest = st_pre.latest

\* C9: when add_block returns InvalidData or NotFound, nothing has been
\* written: latest pointer, stored blocks and balances are as before.
C9_RejectedWritesNothing ==
    (AddBlockReturned /\ st_ret \in {"InvalidData", "NotFound"})
    => Store = st_pre

\* C10: with tip the latest block, a block of height 0, of a height above
\* tip.height + 1 or of a height at most tip.height is refused with
\* NotSupported and the store is unchanged; add_block succeeds only for
\* height tip.height + 1.
C10_HeightClassified ==
    (AddBlockReturned /\ st_pre.latest # NoBytes) =>
        LET tip == db_get_latest_block(st_pre.latest)
            b == st_block
        IN  /\ (b.height = 0 \/ b.height > tip.height + 1
                  \/ b.height <= tip.height)
                => (st_ret = "NotSupported" /\ Store = st_pre)
            /\ st_ret = "Ok" => b.height = tip.height + 1

\* C10 witness: with the tip at height 1 or more, a block of the tip's
\* height and a block too far ahead are possible; here the stale one ran
C10_Witness ==
    /\ AddBlockReturned
    /\ st_pre.latest # NoBytes
    /\ db_get_latest_block(st_pre.latest).height >= 1
    /\ st_block.height = db_get_latest_block(st_pre.latest).height
    /\ st_ret = "NotSupported"

\* update_chainstate was entered by the add_block under way or just ended:
\* add_block writes the latest pointer exactly on that path
ChainstateCalled == st_op = "add_block" /\ db_latest # st_pre.latest

ChainstateSucceeded ==
    \/ st_pc = "put_block"
    \/ st_pc = "returned" /\ st_ret \in {"Ok", "AlreadyExists"}

ChainstateFailed ==
    st_pc = "returned" /\ st_ret \in {"InvalidData", "NotFound"}

\* C11: between store operations every stored balance is >= 0: a set
\* whose combined debits exceed a sender's funds, or which holds a
\* negative amount, leaves no negative balance behind.
C11_BalancesNonNegative ==
    st_pc \in {"idle", "returned"} =>
        \A k \in DOMAIN db_bal : db_bal[k] >= 0

RECURSIVE NetOf(_, _, _)
\* credits minus debits of key k over transactions i.. of the set
NetOf(transactions, i, k) ==
    IF i > Len(transactions) THEN 0
    ELSE LET t == transactions[i]
         IN  (IF t.recipient = k THEN t.amount ELSE 0)
             - (IF t.sender = k /\ t.sender # Identity THEN t.amount ELSE 0)
             + NetOf(transactions, i + 1, k)

\* the keys a set touches: its recipients and its senders but the reward
\* sender
AffectedKeys(transactions) ==
    {transactions[i].recipient : i \in 1..Len(transactions)}
        \cup ({transactions[i].sender : i \in 1..Len(transactions)}
                 \ {Identity})

\* the batched reference: final balance of every affected key
BatchedFinals(bal, transactions) ==
    [k \in AffectedKeys(transactions) |->
        (IF HasBalance(bal, k) THEN bal[k] ELSE 0)
            + NetOf(transactions, 1, k)]

\* C12: update_chainstate agrees with the batched reference: it succeeds
\* exactly when every final balance of the set is >= 0, and then the
\* stored balances are those finals, the other keys as before.
C12_AgreesWithBatched ==
    (ChainstateCalled /\ (ChainstateSucceeded \/ ChainstateFailed)) =>
        LET finals == BatchedFinals(st_pre.bal, st_block.transactions)
        IN  /\ ChainstateSucceeded
                  <=> \A k \in DOMAIN finals : finals[k] >= 0
            /\ ChainstateSucceeded => db_bal = finals @@ st_pre.bal

RECURSIVE LogTransactions(_, _)
\* the transactions of the stored blocks 0..height, in order
LogTransactions(blocks, height) ==
    IF height < 0 THEN <<>>
    ELSE LogTransactions(blocks, height - 1)
             \o get_block(blocks, height).transactions

\* the balance map computed directly from the block log, from an empty map
DirectBalances(blocks, height) ==
    BatchedFinals(<<>>, LogTransactions(blocks, height))

\* every height up to the latest holds a block
LogComplete ==
    /\ db_latest # NoBytes
    /\ \A i \in 0..db_get_latest_block(db_latest).height :
          HasBlock(db_blocks, i)

\* rebuild_chainstate has made as many update_chainstate calls as the log
\* has blocks and is back at its loop, or it has returned Ok
RebuildReplayed ==
    /\ st_op = "rebuild_chainstate"
    /\ \/ st_pc = "returned" /\ st_ret = "Ok"
       \/ /\ st_pc = "rebuild_loop"
          /\ Len(st_applied) >= db_get_latest_block(db_latest).height + 1

\* C13: once rebuild_chainstate has replayed the log of a store filled by
\* successful add_block calls, the chainstate is the balance map computed
\* directly from the transactions of blocks 0..latest.height.
C13_RebuildEqualsReplay ==
    (LogComplete /\ RebuildReplayed) =>
        db_bal = DirectBalances(db_blocks,
                                db_get_latest_block(db_latest).height)

\* C14: rebuild_chainstate hands each stored block to update_chainstate
\* exactly once, in ascending height order from 0 to latest.height: what
\* it has replayed so far is a prefix of 0, 1, .., latest.height.
C14_EachBlockOnce ==
    (st_op = "rebuild_chainstate" /\ db_latest # NoBytes) =>
        \A i \in 1..Len(st_applied) :
            /\ st_applied[i] = i - 1
            /\ i - 1 <= db_get_latest_block(db_latest).height

\* the balances after init_db and a transfer of T.amount from K1 to K2
AfterTransfer ==
    (K1 :> (INIT_BALANCE - T.amount)) @@ (K2 :> (INIT_BALANCE + T.amount))

\* C15: with K1 and K2 funded by init_db, adding a block that transfers an
\* amount a from K1 to K2 leaves K1 with initial - a and K2 with
\* initial + a, and a rebuild_chainstate after it leaves both unchanged.
C15_TransferThenRebuild ==
    /\ (AddBlockReturned /\ st_ret = "Ok" /\ st_block.transactions = <<T>>
          /\ st_pre.bal = (K1 :> INIT_BALANCE) @@ (K2 :> INIT_BALANCE))
       => db_bal = AfterTransfer
    /\ (RebuildReplayed /\ st_pre.bal = AfterTransfer)
       => (/\ HasBalance(db_bal, K1) /\ HasBalance(db_bal, K2)
           /\ db_bal[K1] = st_pre.bal[K1]
           /\ db_bal[K2] = st_pre.bal[K2])

\* C16: after add_block(b) returned Ok, get_block(b.height) returns a block
\* identical to b, get_latest_block returns b, and the blocks stored at
\* the other heights are the ones stored before.
C16_StoredBlockReadBack ==
    (AddBlockReturned /\ st_ret = "Ok") =>
        /\ HasBlock(db_blocks, st_block.height)
        /\ get_block(db_blocks, st_block.height) = st_block
        /\ db_latest # NoBytes
        /\ db_get_latest_block(db_latest) = st_block
        /\ DOMAIN db_blocks = DOMAIN st_pre.blocks \cup {st_block.height}
        /\ \A h \in DOMAIN st_pre.blocks :
              h # st_block.height => db_blocks[h] = st_pre.blocks[h]

\* C16 witness: a block with a transfer and a reward was added at height 2
\* or above and read back
C16_Witness ==
    /\ AddBlockReturned
    /\ st_ret = "Ok"
    /\ st_block.height >= 2
    /\ Len(st_block.transactions) = 2
    /\ HasBlock(db_blocks, 0)

(***************************************************************************)
(* Claims about the peer adapter                                           *)
(***************************************************************************)
\* the block passes the three checks on itself
PassesSelfChecks(block) ==
    /\ confirm_hash(block)
    /\ confirm_transactions(block)
    /\ ~verify_difficulty_panics(block.hash)
    /\ confirm_difficulty(block)

\* the handler of connection c is past the preliminary checks of a
\* request that carries a block
PastSelfCheck(c) ==
    /\ hp[c].pc \in {"lock", "locked", "done", "panicked"}
    /\ hp[c].block # NoBlock

\* the block validly extends the tip the store had when the requests came
ExtendsTip(block) ==
    /\ st_pre.latest # NoBytes
    /\ LET tip == db_get_latest_block(st_pre.latest)
       IN  /\ block.height = tip.height + 1
           /\ block.prev_hash = tip.hash
           /\ block.difficulty = get_new_block_difficulty(<<tip>>, block)
    /\ PassesSelfChecks(block)

\* C17: the handler replies BadData at the self-check, before the store
\* is consulted, exactly when one of the three checks of the block on
\* itself fails; a block that passes all three goes on.
C17_SelfCheckRejectsFailures ==
    \A c \in Conns :
        PastSelfCheck(c) =>
            ((hp[c].status = "BadData" /\ hp[c].at = "self_check")
                <=> ~PassesSelfChecks(hp[c].block))

\* C18: whenever the latest block of the store is at or above the height
\* of the pushed block, the reply is BadData and the store is unchanged.
C18_StalePushRefused ==
    \A c \in Conns :
        (/\ hp[c].pc = "done"
         /\ hp[c].block # NoBlock
         /\ db_latest # NoBytes
         /\ db_get_latest_block(db_latest).height >= hp[c].block.height)
        => (hp[c].status = "BadData" /\ Store = st_pre)

\* C19: a request served alone whose block passes the self-checks and
\* validly extends the stored tip at height latest.height + 1 is replied
\* OK, and then get_latest_block and get_block(block.height) return that
\* block; the tip never advances by more than one block per call.
C19_ValidPushPersisted ==
    /\ \A c \in Conns :
          (/\ hp[c].pc = "done"
           /\ hp[c].block # NoBlock
           /\ \A o \in Conns \ {c} : hp[o].pc = "idle"
           /\ ExtendsTip(hp[c].block))
          => (/\ hp[c].status = "OK"
              /\ db_get_latest_block(db_latest) = hp[c].block
              /\ HasBlock(db_blocks, hp[c].block.height)
              /\ get_block(db_blocks, hp[c].block.height) = hp[c].block)
    /\ (db_latest # NoBytes /\ st_pre.latest # NoBytes) =>
          db_get_latest_block(db_latest).height
              - db_get_latest_block(st_pre.latest).height
            <= Cardinality({c \in Conns : hp[c].pc = "done"})

\* C20: when two requests with valid blocks for the same height tip + 1
\* have both been served, in whatever interleaving, exactly one was
\* replied OK and its block is the new tip, the other was replied BadData.
C20_ConcurrentPushesSerialized ==
    (\A c \in Conns :
        /\ hp[c].pc = "done"
        /\ hp[c].block # NoBlock
        /\ ExtendsTip(hp[c].block))
    => \E w \in Conns :
          /\ hp[w].status = "OK"
          /\ db_get_latest_block(db_latest) = hp[w].block
          /\ \A l \in Conns \ {w} : hp[l].status = "BadData"

\* C21: a PushBlock request without a block is answered with the status
\* BadReq and the kind PushBlock; its handler never takes the store, and
\* the store is as it was.
C21_NoBlockIsBadReq ==
    \A c \in Conns :
        (hp[c].req_type = "PushBlock" /\ hp[c].block = NoBlock)
        => /\ hp[c].pc = "done"
           /\ hp[c].status = "BadReq"
           /\ hp[c].res_type = "PushBlock"
           /\ ~hp[c].locked
           /\ db_lock # c
           /\ Store = st_pre

C21_Witness ==
    \E c \in Conns :
        /\ hp[c].pc = "done"
        /\ hp[c].req_type = "PushBlock"
        /\ hp[c].at = "block_is_none"
        /\ hp[c].sent = 1

\* C22: when the handler of a request has ended, exactly one response was
\* written on its connection, of the kind of the request and with a
\* status among OK, BadReq, BadData, IntErr; no handler writes two.
C22_OneMatchingResponse ==
    \A c \in Conns :
        /\ hp[c].sent <= 1
        /\ hp[c].pc \in {"done", "panicked"}
           => /\ hp[c].sent = 1
              /\ hp[c].res_type = hp[c].req_type
              /\ hp[c].status \in {"OK", "BadReq", "BadData", "IntErr"}

(***************************************************************************)
(* Claims about signatures, blocks and the Merkle root                     *)
(***************************************************************************)
\* C23: verify_signature of the empty signature is false for every
\* message and every public key, so a transaction of a sender other than
\* the identity point that carries it fails Transaction::verify and makes
\* confirm_transactions false.
C23_EmptySignatureNeverVerifies ==
    ec.pc = "verified_empty"
    => /\ ~ec.ok
       /\ ~TxVerify(UnsignedT)
       /\ ~confirm_transactions(StoreBlock(1, <<UnsignedT>>))

\* C24: every transaction sent by the identity point in a block that
\* confirm_transactions admits and update_chainstate has applied has the
\* amount REWARD.
C24_IdentitySenderPaysReward ==
    (/\ ChainstateCalled
     /\ ChainstateSucceeded
     /\ confirm_transactions(st_block))
    => \A i \in 1..Len(st_block.transactions) :
          st_block.transactions[i].sender = Identity
          => st_block.transactions[i].amount = REWARD

C26_NibbleByNibble ==
    vd.pc = "done"
    => /\ vd.ok <=> \A k \in 1..8 : HashTail(vd.hash)[k] <= vd.difficulty[k]
       /\ vd.difficulty = MaxDifficulty => vd.ok
       /\ (vd.difficulty = ZeroDifficulty /\ vd.ok)
          => \A k \in 1..8 : HashTail(vd.hash)[k] = 0

C26_Witness ==
    /\ vd.pc = "done"
    /\ vd.ok
    /\ vd.difficulty # MaxDifficulty
    /\ \E k \in 1..8 : /\ vd.difficulty[k] = 7
                       /\ HashTail(vd.hash)[k] = 7

\* C27: confirm_transactions is true exactly when the block holds at most
\* 5000 transactions and every transaction of a sender other than the
\* identity point passes Transaction::verify; those of the identity point
\* are not checked, and more than 5000 transactions are refused whatever
\* they are.
C27_LimitAndSignatures ==
    ct.pc = "done"
    => /\ ct.ok <=>
             /\ Len(ct.transactions) <= TRANSACTION_LIMIT_PER_BLOCK
             /\ \A i \in 1..Len(ct.transactions) :
                   ct.transactions[i].sender # Identity
                   => TxVerify(ct.transactions[i])
       /\ Len(ct.transactions) > TRANSACTION_LIMIT_PER_BLOCK => ~ct.ok

C27_Witness ==
    /\ ct.pc = "done"
    /\ ct.ok
    /\ Len(ct.transactions) = TRANSACTION_LIMIT_PER_BLOCK
    /\ ct.transactions[1] = T
    /\ ct.transactions[2] = MintedT

\* C28: a block made by new_genesis or new and then changed by any
\* sequence of reward_miner, set_difficulty and increment_and_hash has
\* hash = sha256(message) and merkel_root = the Merkle root of its
\* transactions.
C28_HashAndRootCurrent ==
    blk # NoBlock
    => /\ confirm_hash(blk)
       /\ blk.merkel_root = get_merkel_root(blk.transactions)

C28_Witness ==
    /\ blk # NoBlock
    /\ blk.nonce > 0
    /\ blk.difficulty = ZeroDifficulty
    /\ Len(blk.transactions) = 2
    /\ blk.transactions[2] = reward_transaction(K1)

\* C29, as stated: the Merkle root of a single transaction T is
\* sha256(hash(T)).
C29_SingleLeafHashedAlone ==
    (mk.pc \in {"rooted", "swapped"} /\ Len(mk.transactions) = 1)
    => mk.root = hash(TxHash(mk.transactions[1]))

\* C29, amended: the leaf is duplicated, and the Merkle root of a single
\* transaction T is sha256(hash(T) || hash(T)).
C29_SingleLeafPairedWithItself ==
    (mk.pc \in {"rooted", "swapped"} /\ Len(mk.transactions) = 1)
    => mk.root = hash(TxHash(mk.transactions[1])
                        \o TxHash(mk.transactions[1]))

C29_Witness ==
    /\ mk.pc = "rooted"
    /\ mk.transactions = <<T>>

\* C30: swapping two transactions of different hashes changes the Merkle
\* root, and the root of the empty list is the empty string.
C30_OrderSensitive ==
    /\ (/\ mk.pc = "swapped"
        /\ TxHash(mk.transactions[mk.i]) # TxHash(mk.transactions[mk.j]))
       => mk.swapped_root # mk.root
    /\ (mk.pc \in {"rooted", "swapped"} /\ mk.transactions = <<>>)
       => mk.root = <<>>

C30_Witness ==
    /\ mk.pc = "swapped"
    /\ Len(mk.transactions) = 3
    /\ mk.j = 3
    /\ TxHash(mk.transactions[mk.i]) # TxHash(mk.transactions[mk.j])
    /\ mk.swapped_root # mk.root

C32_InverseOrZero ==
    call.pc \in {"returned", "panicked"} =>
        /\ call.pc = "returned"
        /\ (call.m > 1 /\ GCD(call.m, Abs(call.b)) = 1) =>
               modulo(call.b * call.result, call.m) = 1
        /\ (call.m = 0 \/ call.b = 0 \/ GCD(call.m, Abs(call.b)) # 1) =>
               call.result = 0

(***************************************************************************)
(* Claims about the difficulty rule                                        *)
(***************************************************************************)
\* one more in the most significant nibble below 0xF, if there is one
Loosened(d) ==
    IF \A i \in 1..8 : d[i] = 15 THEN d
    ELSE LET i == CHOOSE i \in 1..8 :
                      d[i] < 15 /\ \A j \in (i + 1)..8 : d[j] = 15
         IN  [d EXCEPT ![i] = d[i] + 1]

\* one less in the least significant nibble above 0, if there is one
Tightened(d) ==
    IF \A i \in 1..8 : d[i] = 0 THEN d
    ELSE LET i == CHOOSE i \in 1..8 :
                      d[i] > 0 /\ \A j \in 1..(i - 1) : d[j] = 0
         IN  [d EXCEPT ![i] = d[i] - 1]

\* the nibbles in which two difficulties differ
NibblesChanged(d, e) == {i \in 1..8 : d[i] # e[i]}

\* C33: get_supposed_difficulty(base, candidate), with dt the timestamp of
\* the candidate minus that of base, returns base.difficulty loosened when
\* dt > BLOCK_SPEED and tightened otherwise (dt = BLOCK_SPEED included); the
\* result differs from base.difficulty in at most one nibble, by exactly 1,
\* and 0xFFFFFFFF with dt <= BLOCK_SPEED gives 0xFFFFFFFE.
C33_OneNibbleStep ==
    call.pc \in {"returned", "panicked"} =>
        /\ call.pc = "returned"
        /\ LET d == call.base_block.difficulty
               dt == call.comp_block.timestamp - call.base_block.timestamp
           IN  /\ call.difficulty =
                      IF dt > BLOCK_SPEED THEN Loosened(d) ELSE Tightened(d)
               /\ Cardinality(NibblesChanged(d, call.difficulty)) <= 1
               /\ \A i \in NibblesChanged(d, call.difficulty) :
                      call.difficulty[i] - d[i] \in {1, 0 - 1}
               /\ (d = MaxDifficulty /\ dt <= BLOCK_SPEED) =>
                      call.difficulty = [MaxDifficulty EXCEPT ![1] = 14]

(***************************************************************************)
(* Claims about the reward of a block                                      *)
(***************************************************************************)
\* C34: reward_miner never makes a second reward.  A block built with at
\* most one transaction sent by the identity point holds exactly one after
\* any number of reward_miner calls, and a call on a block that holds one
\* already leaves the whole block as it was (transactions, merkel_root,
\* hash, nonce).
C34_OneReward ==
    call.pc = "rewarded" =>
        /\ Rewards(blk) = 1
        /\ Rewards(call.after) = 1
        /\ Rewards(call.before) >= 1 => call.after = call.before

\* a second call, for the miner K2, on a block the first call rewarded K1 in
C34_Witness ==
    /\ call.pc = "rewarded"
    /\ call.miner_address = K2
    /\ Rewards(call.before) = 1
    /\ call.before.transactions[Len(call.before.transactions)]
           = reward_transaction(K1)
    /\ call.after = call.before
    /\ blk.nonce > 0

(***************************************************************************)
(* Claims about the recoding of scalars and about sign                     *)
(***************************************************************************)
RECURSIVE WnafValue(_)
\* the number the digits stand for, the first digit being the lowest
WnafValue(digits) ==
    IF digits = <<>> THEN 0
    ELSE digits[1] + 2 * WnafValue(Tail(digits))

\* C35: for every n >= 0, calculate_wnaf(w, n) returns digits that are 0 or
\* odd with an absolute value of at most 2^(w-1) - 1, that add up to n when
\* digit i counts 2^i, and of which any w consecutive ones hold at most one
\* that is not 0; n = 0 gives the empty sequence.
C35_WnafDigits ==
    call.pc = "recoded" =>
        /\ \A i \in 1..Len(call.wnaf) :
              \/ call.wnaf[i] = 0
              \/ /\ Abs(call.wnaf[i]) % 2 = 1
                 /\ Abs(call.wnaf[i]) <= 2 ^ (call.w - 1) - 1
        /\ WnafValue(call.wnaf) = call.n
        /\ \A i \in 1..Len(call.wnaf), j \in 1..Len(call.wnaf) :
              (i < j /\ j - i < call.w /\ call.wnaf[i] # 0)
                  => call.wnaf[j] = 0
        /\ call.n = 0 => call.wnaf = <<>>

\* 265 in windows of 4 bits: -7, then 1 at 2^4 and 1 at 2^8
C35_Witness ==
    /\ call.pc = "recoded"
    /\ call.w = W
    /\ call.n = 265
    /\ call.wnaf = <<0 - 7, 0, 0, 0, 1, 0, 0, 0, 1>>

\* C36: when r or sigma comes out 0, sign calls itself with the same nonce,
\* so the call never returns a signature: this is so for the nonce 0 and
\* for every multiple of the order of the group.  In every other case sign
\* returns after one pass, with r # 0 and s # 0.
C36_SameNonceAgain ==
    call.pc \in {"sign", "returned"} =>
        /\ call.k = call.k0
        /\ call.pc = "returned" =>
               /\ call.passes = 1
               /\ call.signature.r # 0
               /\ call.signature.s # 0
               /\ call.signature = ecdsa_sign(call.message, call.d, call.k0)
        /\ (call.passes >= 1 /\ call.pc = "sign") =>
               ecdsa_sign(call.message, call.d, call.k0) = Diverges
        /\ call.k0 % Secp256k1.n = 0 => call.pc = "sign"

\* the nonce is the order of the group and sign is in itself for the
\* MaxPasses-th time
C36_Witness ==
    /\ call.pc = "sign"
    /\ call.k0 = Secp256k1.n
    /\ call.k = Secp256k1.n
    /\ call.passes = MaxPasses

(***************************************************************************)
(* Claims about the block log and the supply                               *)
(***************************************************************************)
\* C37: between store operations, once init_db has run and whatever the
\* add_block calls returned, get_block(h) finds a block of height h for
\* every h from 0 to the height of get_latest_block(), and the block found
\* at that height is the latest block.
C37_LogGapFree ==
    (st_pc \in {"idle", "returned"} /\ db_latest # NoBytes) =>
        LET latest == db_get_latest_block(db_latest)
        IN  /\ \A h \in 0..latest.height :
                  /\ HasBlock(db_blocks, h)
                  /\ get_block(db_blocks, h).height = h
            /\ get_block(db_blocks, latest.height) = latest

RECURSIVE TotalBalance(_, _)
\* the sum of the balances stored under the keys of a set
TotalBalance(bal, keys) ==
    IF keys = {} THEN 0
    ELSE LET k == CHOOSE x \in keys : TRUE
         IN  bal[k] + TotalBalance(bal, keys \ {k})

RECURSIVE MintedAmount(_, _)
\* the sum of the amounts of the transactions sent by the identity point
MintedAmount(transactions, i) ==
    IF i > Len(transactions) THEN 0
    ELSE (IF transactions[i].sender = Identity
          THEN transactions[i].amount ELSE 0)
         + MintedAmount(transactions, i + 1)

\* C38: when add_block returns Ok, the sum of all stored balances has
\* changed by exactly the sum of the amounts of the block's transactions
\* sent by the identity point; transfers, a transfer of a key to itself
\* included, leave the sum unchanged.
C38_SupplyConserved ==
    (st_op = "add_block" /\ st_pc = "returned" /\ st_ret = "Ok") =>
        TotalBalance(db_bal, DOMAIN db_bal)
            - TotalBalance(st_pre.bal, DOMAIN st_pre.bal)
        = MintedAmount(st_block.transactions, 1)

\* from the most significant nibble down: a run of 0xf, at most one nibble
\* of any value, then only 0
Staircase(d) ==
    \E k \in 1..8 : /\ \A j \in (k + 1)..8 : d[j] = 15
                    /\ \A j \in 1..(k - 1) : d[j] = 0

\* C39: every block of a chain grown from genesis by accepted add_block
\* calls has a difficulty of the form: a run of 0xf nibbles, at most one
\* nibble of any value, then only 0 nibbles (most significant first); and on
\* such a difficulty, unless it is all f or all 0, loosening then tightening
\* and tightening then loosening both give back the difficulty.
C39_StaircaseDifficulty ==
    /\ \A i \in 1..Len(chain) : Staircase(chain[i].difficulty)
    /\ LET d == RetargetTip.difficulty
       IN  /\ Staircase(d)
           /\ (d # MaxDifficulty /\ d # ZeroDifficulty) =>
                 /\ TightenLoop(LoosenLoop(d, 28), 0) = d
                 /\ LoosenLoop(TightenLoop(d, 0), 28) = d

\* a tightened chain whose tip has a nibble strictly between 0 and 0xf
\* above a 0 nibble (0xffffff70, say)
C39_Witness ==
    /\ call # NoCall
    /\ call.pc = "pushed"
    /\ call.tip.difficulty[1] = 0
    /\ call.tip.difficulty[2] \in 1..14
    /\ call.latest_diff = [call.tip.difficulty EXCEPT ![2] = @ + 1]

\* C40: two transaction lists whose sequences of transaction hashes differ
\* (in length or in some position) never have the same get_merkel_root, and
\* the root of a list that is not empty is the one node the pop-pop-push
\* loop ends with.
C40_RootCommits ==
    (call # NoCall /\ call.pc = "rooted") =>
        /\ TxHashes(call.transactions) # TxHashes(call.other)
               => call.root # call.other_root
        /\ Len(call.transactions) > 0 => Len(call.root) = 1

====
